---- MODULE Spec2Model ----
(***************************************************************************)
(* State-machine model of the lalacar robot controllers.                   *)
(*                                                                         *)
(*   main.py                RobotController, CommandExecutor               *)
(*   over-wifi/wifi-sys.py  WebCommandExecutor, handle_command             *)
(*   testdemo/demo_controller.py  SimulatedRobotController,                *)
(*                                DemoCommandExecutor, handle_command      *)
(*                                                                         *)
(* A thread's position is the number of the source line it executes next:  *)
(* lines of main.py as they are, lines of wifi-sys.py plus W, lines of     *)
(* demo_controller.py plus D.  0 means the thread is idle, and -l that the *)
(* call made at line l has returned and the rest of line l is to be done.  *)
(*                                                                         *)
(* Units: time in milliseconds, distance in millimetres, angles in 1/1000  *)
(* degree.  A quotient the code computes in floating point (distance /     *)
(* speed, |angle| / rot_speed) is kept as a reduced fraction <<n, d>>, in  *)
(* seconds.                                                                *)
(***************************************************************************)
EXTENDS Integers, Sequences, FiniteSets, TLC

\* ------------------------------------------------------------------------
\* Bounds of the model
\* ------------------------------------------------------------------------
\* commands the command source submits in one run
MaxCommands == 2
\* hardware writes that may raise in one run
MaxFaults == 1
\* rows the user of the sheet writes
MaxWrites == 2
\* polls of the sheet the loop of run makes beside the display thread
MaxPolls == 6
\* polls of the sheet the loop of run makes when commands are executed
MaxSheetPolls == 3
\* longest echo wait of one ranging measurement, in units of EchoUnit ms
MaxEchoWait == 1
\* events put in the queue in one run of the display thread
MaxEvents == 2
\* times the display process is started again
MaxRestarts == 1
\* times a gif file is replaced
MaxEdits == 1
\* frames of a gif file
FrameCount == 2

\* frames of a playback that are followed one by one
MaxSteps == 2
\* commands followed once the process serves commands
MaxServed == 2
\* the time at which the process is started again, ms (3 h: later than any
\* run of MaxEvents events ends)
RestartTime == 10800000

\* ------------------------------------------------------------------------
\* Program constants
\* ------------------------------------------------------------------------
\* LINEAR_SPEED = 0.7 m/s, in mm/s
LINEAR_SPEED == 700
\* ROTATION_SPEED = 270 degrees/s
ROTATION_SPEED == 270
\* self.obstacle_threshold = 20.0 cm
obstacle_threshold == 20
\* time.sleep(0.1) of the move loops, in ms
PollSleep == 100
\* time.sleep(0.5) of the recovery nudge, in ms
NudgeSleep == 500
\* ChangeDutyCycle(50) of the moves and turns
DriveDuty == 50
\* ChangeDutyCycle(30) of the recovery nudge
NudgeDuty == 30
\* the 999 measure_distance returns when the measurement raised
SensorErrorDistance == 999
\* line offsets of wifi-sys.py and demo_controller.py
W == 1000
D == 2000
\* granularity of the modelled echo wait, in ms
EchoUnit == 50
\* the 0.1 s either wait loop of measure_distance may last, in ms
EchoTimeout == 100
\* pulse_duration * 17150: half the speed of sound, in cm/s
SoundFactor == 17150
\* time between two readings of the echo pin in a wait loop, in microseconds
LoopTick == 1

\* ------------------------------------------------------------------------
\* Fractions
\* ------------------------------------------------------------------------
Abs(x) == IF x < 0 THEN -x ELSE x

RECURSIVE Gcd(_, _)
Gcd(a, b) == IF b = 0 THEN a ELSE Gcd(b, a % b)

\* the reduced fraction n/d, d > 0
Frac(n, d) ==
    LET g == Gcd(Abs(n), d) IN IF g = 0 THEN <<0, 1>> ELSE <<n \div g, d \div g>>

FracLT(a, b) == a[1] * b[2] < b[1] * a[2]

FracLE(a, b) == a[1] * b[2] <= b[1] * a[2]

\* ------------------------------------------------------------------------
\* Inputs
\* ------------------------------------------------------------------------
\* threads that handle commands; the Sheets loop is thread 1 alone
Threads == {1, 2}

\* the four motor direction pins: MOTOR_A[0], MOTOR_A[1], MOTOR_B[0], MOTOR_B[1]
DirPins == {"A0", "A1", "B0", "B1"}

Channels == {"A", "B"}

\* widths of the echo pulse, in microseconds: the two either side of 20 cm
PulseWidths == {1166, 1167}

\* what the echo pin does after a trigger: it rises rise microseconds later
\* and stays high for width microseconds, or (edge FALSE) it stays low.  The
\* delay and the missing echo are varied for the Sheets controller only, the
\* other controllers are observed with a prompt echo.
Echoes(prog) ==
    {[edge |-> TRUE, rise |-> k * EchoUnit * 1000, width |-> w] :
        k \in 0..(IF prog = "main" THEN MaxEchoWait ELSE 0), w \in PulseWidths}
    \cup (IF prog = "main" THEN {[edge |-> FALSE, rise |-> 0, width |-> 0]} ELSE {})

\* ------------------------------------------------------------------------
\* State
\* ------------------------------------------------------------------------
VARIABLES
    program,       \* which part runs: "main", "wifi", "demo", or "display" for
                   \* the display pipeline with its event sources
    boot,          \* the main thread of the process: its position in main() and
                   \* in the constructors main() calls, what it has acquired,
                   \* bound, started and released
    pc,            \* per thread: the line executed next, 0 when idle
    stack,         \* per thread: the return lines of the calls in progress
    loc,           \* per thread: the local variables of the calls in progress
    robot_stopped, \* RobotController.robot_stopped
    pwm_a,         \* RobotController.pwm_a: "None" or "PWM"
    pwm_b,         \* RobotController.pwm_b
    pin,           \* level of each direction pin (TRUE = HIGH)
    duty,          \* duty cycle last set on each PWM channel
    pwmOn,         \* whether a started PWM generator runs on the channel
    action_queue,  \* the ActionEvent queue: <<kind, duration>>
    executing,     \* WebCommandExecutor.executing / DemoCommandExecutor.executing
    faultsLeft,    \* hardware writes that may still raise
    submitted,     \* commands submitted so far
    results,       \* the last outcome reported to the command source, and how many
    emergency_stop_flag, \* SimulatedRobotController.emergency_stop_flag
    position,      \* SimulatedRobotController.position: travel and angle
    total_distance,  \* SimulatedRobotController.total_distance, mm
    total_rotations, \* SimulatedRobotController.total_rotations, 1/1000 degree
    command_count, \* robot_status['command_count']
    robot_status,  \* robot_status['error'] and robot_status['executing'] of the
                   \* demo controller
    execution_lock,  \* DemoCommandExecutor.execution_lock: its holder, 0 if free
    aux,           \* per thread: history of the command in progress
    player,        \* the display thread: its position and the locals of run,
                   \* play_gif_with_time_limit and preprocess_gif_frames
    stop_event,    \* PortraitGifPlayer.stop_event
    display_size,  \* <<display_width, display_height>>
    gif_dir,       \* the files of PortraitGifPlayer.gif_dir, by name
    cache_dir,     \* the files of PortraitGifPlayer.cache_dir, by cache path
    now,           \* time.time(), in ms
    published,     \* the time each queued event was put in the queue
    seen,          \* history of the display thread
    worksheet,     \* row 2 of the worksheet: its cells
    last_command_id, \* CommandExecutor.last_command_id, <<>> while it is not set
    command_data,  \* the local command_data of CommandExecutor.run
    polled         \* the clock of the thread of CommandExecutor.run (ms), and
                   \* the history of its loop

hw == <<pin, duty, pwmOn>>

sheet == <<worksheet, last_command_id, command_data, polled>>

robot == <<robot_stopped, pwm_a, pwm_b>>

sim == <<emergency_stop_flag, position, total_distance, total_rotations>>

demo == <<sim, command_count, robot_status, execution_lock>>

\* the variables of the display pipeline, the event queue apart
display == <<player, stop_event, display_size, gif_dir, cache_dir, now, published,
             seen>>

vars == <<program, boot, sheet, pc, stack, loc, robot_stopped, pwm_a, pwm_b, pin, duty, pwmOn,
          action_queue, executing, faultsLeft, submitted, results,
          emergency_stop_flag, position, total_distance, total_rotations,
          command_count, robot_status, execution_lock, aux, player, stop_event, display_size,
          gif_dir, cache_dir, now, published, seen>>

\* ------------------------------------------------------------------------
\* Control flow: calls, returns, exceptions
\* ------------------------------------------------------------------------
\* the thread died of an exception no handler caught
CRASHED == 2
\* the display thread's function has returned
ENDED == 1

\* a faulty variant: the try blocks of the executors are missing, those of
\* the RobotController remain
HandlerOfRobotOnly(l) ==
    CASE l \in 160..170 -> 172
      [] l \in 178..188 -> 190
      [] l \in 196..220 -> 222
      [] l \in 229..253 -> 255
      [] l \in 265..286 -> 288
      [] OTHER -> 0

\* the except line guarding line l, 0 when l is in no try block
Handler(l) ==
    CASE l \in 160..170 -> 172
      [] l \in 178..188 -> 190
      [] l \in 196..220 -> 222
      [] l \in 229..253 -> 255
      [] l \in 265..286 -> 288
      [] l \in 402..407 -> 409
      [] l \in 415..420 -> 422
      [] l \in 428..430 -> 432
      [] l \in 438..440 -> 442
      [] l \in 449..465 -> 467
      [] l \in 474..480 -> 482
      [] l \in 489..491 -> 493
      [] l \in 502..502 -> 504
      [] l \in (W + 71)..(W + 133) -> W + 136
      [] -l \in (W + 71)..(W + 133) -> W + 136
      [] l \in (D + 277)..(D + 320) -> D + 322
      [] -l \in (D + 277)..(D + 320) -> D + 322
      [] OTHER -> 0

\* where an exception raised at line l with return lines stk lands
RECURSIVE RaiseTo(_, _)
RaiseTo(l, stk) ==
    IF Handler(l) # 0 THEN <<Handler(l), stk>>
    ELSE IF stk = <<>> THEN <<CRASHED, <<>>>>
    ELSE RaiseTo(Head(stk), Tail(stk))

Goto(t, l) ==
    /\ pc' = [pc EXCEPT ![t] = l]
    /\ UNCHANGED stack

Call(t, f, r) ==
    /\ pc' = [pc EXCEPT ![t] = f]
    /\ stack' = [stack EXCEPT ![t] = <<r>> \o @]

Return(t) ==
    /\ pc' = [pc EXCEPT ![t] = Head(stack[t])]
    /\ stack' = [stack EXCEPT ![t] = Tail(@)]

Raise(t) ==
    LET h == RaiseTo(pc[t], stack[t]) IN
    /\ pc' = [pc EXCEPT ![t] = h[1]]
    /\ stack' = [stack EXCEPT ![t] = h[2]]

\* outcomes of one hardware write: TRUE it succeeds, FALSE it raises
HwOutcomes == IF faultsLeft > 0 THEN {TRUE, FALSE} ELSE {TRUE}

\* a GPIO / PWM call at the current line: it sets the outputs to p, d, o and
\* goes on to line next, or raises
HwWrite(t, ok, p, d, o, next) ==
    IF ok
    THEN /\ pin' = p
         /\ duty' = d
         /\ pwmOn' = o
         /\ Goto(t, next)
         /\ UNCHANGED faultsLeft
         /\ aux' = [aux EXCEPT ![t].wrote = TRUE,
                               ![t].high = @ \/ \E x \in DirPins : p[x] /\ ~pin[x]]
    ELSE /\ Raise(t)
         /\ faultsLeft' = faultsLeft - 1
         /\ aux' = [aux EXCEPT ![t].fault = TRUE]
         /\ UNCHANGED hw

\* a method call on self.pwm_a / self.pwm_b (obj): AttributeError when it is None
PwmCall(t, ok, obj, p, d, o, next) ==
    IF obj = "None"
    THEN Raise(t) /\ UNCHANGED <<hw, faultsLeft, aux>>
    ELSE HwWrite(t, ok, p, d, o, next)

\* a faulty variant of SetPins: the pins stay as they are
SetPinsNothing(ps, v) == pin

SetPins(ps, v) == [x \in DirPins |-> IF x \in ps THEN v ELSE pin[x]]

SetDuty(ch, v) == [duty EXCEPT ![ch] = v]

\* the variables a RobotController step leaves alone besides those it names
others == <<program, boot, sheet, display, demo, action_queue, executing, submitted, results>>

\* ------------------------------------------------------------------------
\* RobotController (main.py)
\* ------------------------------------------------------------------------
Max(a, b) == IF a > b THEN a ELSE b

Min(a, b) == IF a < b THEN a ELSE b

CeilDiv(a, b) == (a + b - 1) \div b

\* GPIO.input(sensor[1]) == 1 at a time (microseconds after the trigger)
EchoHigh(e, time) == e.edge /\ e.rise <= time /\ time < e.rise + e.width

\* lines 103..106: the number of the first reading of the echo pin, one
\* every LoopTick, at which the pin is high or the timeout has passed
FirstLoopExit(e) ==
    IF e.edge /\ e.rise < EchoTimeout * 1000
    THEN CeilDiv(e.rise, LoopTick)
    ELSE CeilDiv(EchoTimeout * 1000, LoopTick)

\* pulse_start when the first loop is left: the time of its last iteration,
\* or that of line 103 when it made none
pulse_start(e) == Max(FirstLoopExit(e) - 1, 0) * LoopTick

\* lines 107..110: the number of the first reading at which the pin is low
\* again or the second timeout has passed
SecondLoopExit(e) ==
    LET k1 == FirstLoopExit(e) IN
    IF ~EchoHigh(e, k1 * LoopTick) THEN k1
    ELSE Min(CeilDiv(e.rise + e.width, LoopTick),
             k1 + CeilDiv(EchoTimeout * 1000, LoopTick))

\* pulse_end when the second loop is left: the time of its last iteration,
\* or that of line 107 when it made none
pulse_end(e) == Max(SecondLoopExit(e) - 1, FirstLoopExit(e)) * LoopTick

\* measure_distance, lines 111..113: round(pulse_duration * 17150, 2), in
\* 1/100 cm, the duration being in microseconds
measure_distance(e) ==
    ((pulse_end(e) - pulse_start(e)) * SoundFactor + 5000) \div 10000

\* the first wait loop was left with the echo pin still low
NoEdgeSeen(e) == ~EchoHigh(e, FirstLoopExit(e) * LoopTick)

\* the time a measurement waits for the rising edge, in ms; the pulse itself
\* is below the granularity of the clock of a move
EchoWait(e) == (FirstLoopExit(e) * LoopTick) \div 1000

\* what one call of measure_distance gives: the distance (1/100 cm), the time
\* it took and whether it ended at its timeout; 999 when the measurement raised
Measurements(prog) ==
    {[distance |-> measure_distance(e), wait |-> EchoWait(e),
      timeout |-> NoEdgeSeen(e)] : e \in Echoes(prog)}
    \cup {[distance |-> SensorErrorDistance * 100, wait |-> 0, timeout |-> FALSE]}

\* check_obstacle: distance < self.obstacle_threshold (distance in 1/100 cm)
check_obstacle(distance) == distance < obstacle_threshold * 100

\* target_duration = distance / self.speed, in seconds (distance in mm)
target_duration(distance) == Frac(distance, LINEAR_SPEED)

\* a faulty variant of the loop test: <= in place of <
LoopCondInclusive(elapsed, distance, stopped) ==
    FracLE(Frac(elapsed, 1000), target_duration(distance)) /\ ~stopped

\* (time.time() - start_time) < target_duration and not self.robot_stopped
LoopCond(elapsed, distance, stopped) ==
    FracLT(Frac(elapsed, 1000), target_duration(distance)) /\ ~stopped

\* the two linear moves differ in their lines, pins and stop routine only
Forward == [base |-> 0, drive |-> {"A0", "B0"}, idle |-> {"A1", "B1"},
            estop |-> 139, name |-> "forward", sensor |-> "FRONT_USENSE"]

Backward == [base |-> 33, drive |-> {"A1", "B1"}, idle |-> {"A0", "B0"},
             estop |-> 149, name |-> "backward", sensor |-> "REAR_USENSE"]

\* a faulty variant of the first statement of a linear move: no assignment
StopStateKept(stopped) == stopped

\* self.robot_stopped = False, the first statement of a linear move
StopStateAtStart(stopped) == FALSE

\* the locals of a linear move or turn are gone once it has returned
EndCall(l, v) ==
    [l EXCEPT !.ret = v, !.distance = 0, !.angle = 0, !.elapsed = 0, !.i = 0]

\* move_forward_with_obstacle_detection / move_backward, line by line
\* (line numbers of the forward move; the backward move is m.base further)
LinearMove(t, m) ==
    LET at(l) == pc[t] = l + m.base
        to(l) == l + m.base
    IN
    \/ /\ at(196)
       /\ robot_stopped' = StopStateAtStart(robot_stopped)
       /\ Goto(t, to(197))
       /\ aux' = [aux EXCEPT ![t].sensors = {}]
       /\ UNCHANGED <<loc, pwm_a, pwm_b, hw, faultsLeft, others>>
    \/ /\ at(197)
       /\ \E ok \in HwOutcomes :
            /\ HwWrite(t, ok, pin, duty, pwmOn, to(198))
            /\ pwm_a' = IF ok THEN "PWM" ELSE pwm_a
       /\ UNCHANGED <<loc, robot_stopped, pwm_b, others>>
    \/ /\ at(198)
       /\ \E ok \in HwOutcomes :
            /\ HwWrite(t, ok, pin, duty, pwmOn, to(199))
            /\ pwm_b' = IF ok THEN "PWM" ELSE pwm_b
       /\ UNCHANGED <<loc, robot_stopped, pwm_a, others>>
    \/ /\ at(199)
       /\ \E ok \in HwOutcomes :
            PwmCall(t, ok, pwm_a, pin, SetDuty("A", 0),
                    [pwmOn EXCEPT !["A"] = TRUE], to(200))
       /\ UNCHANGED <<loc, robot, others>>
    \/ /\ at(200)
       /\ \E ok \in HwOutcomes :
            PwmCall(t, ok, pwm_b, pin, SetDuty("B", 0),
                    [pwmOn EXCEPT !["B"] = TRUE], to(201))
       /\ UNCHANGED <<loc, robot, others>>
    \/ /\ at(201)
       /\ \E ok \in HwOutcomes :
            HwWrite(t, ok, SetPins(m.drive, TRUE), duty, pwmOn, to(202))
       /\ UNCHANGED <<loc, robot, others>>
    \/ /\ at(202)
       /\ \E ok \in HwOutcomes :
            HwWrite(t, ok, SetPins(m.idle, FALSE), duty, pwmOn, to(203))
       /\ UNCHANGED <<loc, robot, others>>
    \/ /\ at(203)
       /\ \E ok \in HwOutcomes :
            PwmCall(t, ok, pwm_a, pin, SetDuty("A", DriveDuty), pwmOn, to(204))
       /\ UNCHANGED <<loc, robot, others>>
    \/ /\ at(204)
       /\ \E ok \in HwOutcomes :
            PwmCall(t, ok, pwm_b, pin, SetDuty("B", DriveDuty), pwmOn, to(205))
       /\ UNCHANGED <<loc, robot, others>>
    \/ /\ at(205)
       /\ loc' = [loc EXCEPT ![t].elapsed = 0]
       /\ Goto(t, to(207))
       /\ UNCHANGED <<robot, hw, faultsLeft, aux, others>>
    \/ /\ at(207)
       /\ IF LoopCond(loc[t].elapsed, loc[t].distance, robot_stopped)
          THEN /\ Goto(t, to(208))
               /\ aux' = [aux EXCEPT ![t].prev = loc[t].elapsed]
          ELSE /\ Goto(t, to(212))
               /\ UNCHANGED aux
       /\ UNCHANGED <<loc, robot, hw, faultsLeft, others>>
    \/ /\ at(208)
       /\ \E r \in Measurements(program) :
            /\ loc' = [loc EXCEPT ![t].elapsed = @ + r.wait]
            /\ IF check_obstacle(r.distance)
               THEN /\ Call(t, m.estop, to(210))
               ELSE /\ Goto(t, to(211))
            /\ aux' = [aux EXCEPT ![t].clear = @ /\ ~check_obstacle(r.distance),
                                  ![t].obstacle = @ \/ check_obstacle(r.distance),
                                  ![t].timeout = r.timeout,
                                  ![t].sensors = @ \cup {m.sensor}]
       /\ UNCHANGED <<robot, hw, faultsLeft, others>>
    \/ /\ at(210)
       /\ Goto(t, to(212))
       /\ UNCHANGED <<loc, robot, hw, faultsLeft, aux, others>>
    \/ /\ at(211)
       /\ loc' = [loc EXCEPT ![t].elapsed = @ + PollSleep]
       /\ aux' = [aux EXCEPT ![t].polls = IF aux[t].stopAsked THEN @ + 1 ELSE @]
       /\ Goto(t, to(207))
       /\ UNCHANGED <<robot, hw, faultsLeft, others>>
    \/ /\ at(212)
       /\ Goto(t, IF ~robot_stopped THEN to(213) ELSE to(216))
       /\ UNCHANGED <<loc, robot, hw, faultsLeft, aux, others>>
    \/ /\ at(213)
       /\ \E ok \in HwOutcomes :
            HwWrite(t, ok, SetPins(m.drive, FALSE), duty, pwmOn, to(214))
       /\ UNCHANGED <<loc, robot, others>>
    \/ /\ at(214)
       /\ \E ok \in HwOutcomes :
            PwmCall(t, ok, pwm_a, pin, SetDuty("A", 0), pwmOn, to(215))
       /\ UNCHANGED <<loc, robot, others>>
    \/ /\ at(215)
       /\ \E ok \in HwOutcomes :
            PwmCall(t, ok, pwm_b, pin, SetDuty("B", 0), pwmOn, to(216))
       /\ UNCHANGED <<loc, robot, others>>
    \/ /\ at(216)
       /\ \E ok \in HwOutcomes :
            PwmCall(t, ok, pwm_a, pin, duty, [pwmOn EXCEPT !["A"] = FALSE], to(217))
       /\ UNCHANGED <<loc, robot, others>>
    \/ /\ at(217)
       /\ \E ok \in HwOutcomes :
            PwmCall(t, ok, pwm_b, pin, duty, [pwmOn EXCEPT !["B"] = FALSE], to(218))
       /\ UNCHANGED <<loc, robot, others>>
    \/ /\ at(218)
       /\ pwm_a' = "None"
       /\ Goto(t, to(219))
       /\ UNCHANGED <<loc, robot_stopped, pwm_b, hw, faultsLeft, aux, others>>
    \/ /\ at(219)
       /\ pwm_b' = "None"
       /\ Goto(t, to(220))
       /\ UNCHANGED <<loc, robot_stopped, pwm_a, hw, faultsLeft, aux, others>>
    \* return not self.robot_stopped (220), or return False of the except
    \* clause (222)
    \/ /\ at(220) \/ at(222)
       /\ loc' = [loc EXCEPT ![t] = EndCall(@, at(220) /\ ~robot_stopped)]
       /\ aux' = [aux EXCEPT ![t].subs = Append(@, at(220) /\ ~robot_stopped),
                             ![t].prev = -1, ![t].clear = TRUE, ![t].nudge = 0,
                             ![t].polls = 0, ![t].stopAsked = FALSE,
                             ![t].timeout = FALSE]
       /\ Return(t)
       /\ UNCHANGED <<robot, hw, faultsLeft, others>>

move_forward_with_obstacle_detection(t) == LinearMove(t, Forward)

move_backward(t) == LinearMove(t, Backward)

\* emergency_stop_forward (lines 139..144) / emergency_stop_backward (e.base
\* further); no try block: what raises here raises in the caller
EStopForward == [base |-> 0, handle |-> 160]

\* a faulty variant of EStopBackward: the nudge of the forward stop is called
EStopBackwardNudgingBackward == [base |-> 10, handle |-> 160]

EStopBackward == [base |-> 10, handle |-> 178]

EmergencyStop(t, e) ==
    LET at(l) == pc[t] = l + e.base
        to(l) == l + e.base
    IN
    \/ /\ at(139)
       /\ robot_stopped' = TRUE
       /\ Goto(t, to(140))
       /\ UNCHANGED <<loc, pwm_a, pwm_b, hw, faultsLeft, aux, others>>
    \/ /\ at(140)
       /\ Goto(t, IF pwm_a # "None" /\ pwm_b # "None" THEN to(141) ELSE to(144))
       /\ UNCHANGED <<loc, robot, hw, faultsLeft, aux, others>>
    \/ /\ at(141)
       /\ \E ok \in HwOutcomes :
            HwWrite(t, ok, SetPins(DirPins, FALSE), duty, pwmOn, to(142))
       /\ UNCHANGED <<loc, robot, others>>
    \/ /\ at(142)
       /\ \E ok \in HwOutcomes :
            PwmCall(t, ok, pwm_a, pin, SetDuty("A", 0), pwmOn, to(143))
       /\ UNCHANGED <<loc, robot, others>>
    \/ /\ at(143)
       /\ \E ok \in HwOutcomes :
            PwmCall(t, ok, pwm_b, pin, SetDuty("B", 0), pwmOn, to(144))
       /\ UNCHANGED <<loc, robot, others>>
    \/ /\ at(144)
       /\ Call(t, e.handle, to(145))
       /\ UNCHANGED <<loc, robot, hw, faultsLeft, aux, others>>
    \/ /\ at(145)
       /\ Return(t)
       /\ UNCHANGED <<loc, robot, hw, faultsLeft, aux, others>>

emergency_stop_forward(t) == EmergencyStop(t, EStopForward)

emergency_stop_backward(t) == EmergencyStop(t, EStopBackward)

\* a faulty variant of the backward nudge: the forward pins are driven
NudgeTowardsObstacle == [base |-> 0, drive |-> {"A0", "B0"}, idle |-> {"A1", "B1"}]

\* handle_obstacle_detected_backward (lines 160..172): the nudge away from a
\* front obstacle; handle_obstacle_detected_forward is n.base further
NudgeBackward == [base |-> 0, drive |-> {"A1", "B1"}, idle |-> {"A0", "B0"}]

NudgeForward == [base |-> 18, drive |-> {"A0", "B0"}, idle |-> {"A1", "B1"}]

HandleObstacle(t, n) ==
    LET at(l) == pc[t] = l + n.base
        to(l) == l + n.base
        both == pwm_a # "None" /\ pwm_b # "None"
    IN
    \/ /\ at(160)
       /\ \E ok \in HwOutcomes :
            HwWrite(t, ok, SetPins(n.drive, TRUE), duty, pwmOn, to(161))
       /\ UNCHANGED <<loc, robot, others>>
    \/ /\ at(161)
       /\ \E ok \in HwOutcomes :
            HwWrite(t, ok, SetPins(n.idle, FALSE), duty, pwmOn, to(162))
       /\ UNCHANGED <<loc, robot, others>>
    \/ /\ at(162)
       /\ Goto(t, IF both THEN to(163) ELSE to(165))
       /\ UNCHANGED <<loc, robot, hw, faultsLeft, aux, others>>
    \/ /\ at(163)
       /\ \E ok \in HwOutcomes :
            PwmCall(t, ok, pwm_a, pin, SetDuty("A", NudgeDuty), pwmOn, to(164))
       /\ UNCHANGED <<loc, robot, others>>
    \/ /\ at(164)
       /\ \E ok \in HwOutcomes :
            PwmCall(t, ok, pwm_b, pin, SetDuty("B", NudgeDuty), pwmOn, to(165))
       /\ UNCHANGED <<loc, robot, others>>
    \/ /\ at(165)
       /\ aux' = [aux EXCEPT ![t].nudge = @ + NudgeSleep]
       /\ Goto(t, to(166))
       /\ UNCHANGED <<loc, robot, hw, faultsLeft, others>>
    \/ /\ at(166)
       /\ \E ok \in HwOutcomes :
            HwWrite(t, ok, SetPins(n.drive, FALSE), duty, pwmOn, to(167))
       /\ UNCHANGED <<loc, robot, others>>
    \/ /\ at(167)
       /\ Goto(t, IF both THEN to(168) ELSE to(170))
       /\ UNCHANGED <<loc, robot, hw, faultsLeft, aux, others>>
    \/ /\ at(168)
       /\ \E ok \in HwOutcomes :
            PwmCall(t, ok, pwm_a, pin, SetDuty("A", 0), pwmOn, to(169))
       /\ UNCHANGED <<loc, robot, others>>
    \/ /\ at(169)
       /\ \E ok \in HwOutcomes :
            PwmCall(t, ok, pwm_b, pin, SetDuty("B", 0), pwmOn, to(170))
       /\ UNCHANGED <<loc, robot, others>>
    \/ /\ pc[t] \in {170 + n.base, 172 + n.base}
       /\ Return(t)
       /\ UNCHANGED <<loc, robot, hw, faultsLeft, aux, others>>

handle_obstacle_detected_backward(t) == HandleObstacle(t, NudgeBackward)

handle_obstacle_detected_forward(t) == HandleObstacle(t, NudgeForward)

\* the seconds turn sleeps: abs(angle) / self.rot_speed (angle in 1/1000 degree)
turn_duration(angle) == Frac(Abs(angle), ROTATION_SPEED * 1000)

\* turn(angle), lines 261..289; the angle is loc[t].angle
turn(t) ==
    LET left == loc[t].angle < 0
        one == IF left THEN "A0" ELSE "B0"
    IN
    \/ /\ pc[t] = 261
       /\ IF loc[t].angle = 0
          THEN /\ Return(t)
               /\ loc' = [loc EXCEPT ![t] = EndCall(@, TRUE)]
               /\ aux' = [aux EXCEPT ![t].subs = Append(@, TRUE),
                                     ![t].sensors = {}]
          ELSE /\ Goto(t, 265)
               /\ aux' = [aux EXCEPT ![t].sensors = {}]
               /\ UNCHANGED loc
       /\ UNCHANGED <<robot, hw, faultsLeft, others>>
    \/ /\ pc[t] \in {265, 266}
       /\ \E ok \in HwOutcomes : HwWrite(t, ok, pin, duty, pwmOn, pc[t] + 1)
       /\ UNCHANGED <<loc, robot, others>>
    \/ /\ pc[t] = 267
       /\ \E ok \in HwOutcomes :
            HwWrite(t, ok, pin, SetDuty("A", 0), [pwmOn EXCEPT !["A"] = TRUE], 268)
       /\ UNCHANGED <<loc, robot, others>>
    \/ /\ pc[t] = 268
       /\ \E ok \in HwOutcomes :
            HwWrite(t, ok, pin, SetDuty("B", 0), [pwmOn EXCEPT !["B"] = TRUE], 269)
       /\ UNCHANGED <<loc, robot, others>>
    \/ /\ pc[t] = 269
       /\ \E ok \in HwOutcomes :
            HwWrite(t, ok, pin, duty, pwmOn, IF left THEN 271 ELSE 278)
       /\ UNCHANGED <<loc, robot, others>>
    \/ /\ pc[t] \in {271, 278}
       /\ \E ok \in HwOutcomes :
            HwWrite(t, ok, SetPins({one}, TRUE), duty, pwmOn, pc[t] + 1)
       /\ UNCHANGED <<loc, robot, others>>
    \/ /\ pc[t] \in {272, 279}
       /\ \E ok \in HwOutcomes :
            HwWrite(t, ok, SetPins(DirPins \ {one}, FALSE), duty, pwmOn, pc[t] + 1)
       /\ UNCHANGED <<loc, robot, others>>
    \/ /\ pc[t] \in {273, 280}
       /\ \E ok \in HwOutcomes :
            HwWrite(t, ok, pin, SetDuty("A", DriveDuty), pwmOn, pc[t] + 1)
       /\ UNCHANGED <<loc, robot, others>>
    \/ /\ pc[t] \in {274, 281}
       /\ \E ok \in HwOutcomes :
            HwWrite(t, ok, pin, SetDuty("B", DriveDuty), pwmOn, pc[t] + 1)
       /\ UNCHANGED <<loc, robot, others>>
    \/ /\ pc[t] \in {275, 282}
       /\ Goto(t, pc[t] + 1)
       /\ UNCHANGED <<loc, aux, robot, hw, faultsLeft, others>>
    \/ /\ pc[t] \in {276, 283}
       /\ \E ok \in HwOutcomes :
            HwWrite(t, ok, SetPins({one}, FALSE), duty, pwmOn, 284)
       /\ UNCHANGED <<loc, robot, others>>
    \/ /\ pc[t] = 284
       /\ \E ok \in HwOutcomes :
            HwWrite(t, ok, pin, duty, [pwmOn EXCEPT !["A"] = FALSE], 285)
       /\ UNCHANGED <<loc, robot, others>>
    \/ /\ pc[t] = 285
       /\ \E ok \in HwOutcomes :
            HwWrite(t, ok, pin, duty, [pwmOn EXCEPT !["B"] = FALSE], 286)
       /\ UNCHANGED <<loc, robot, others>>
    \/ /\ pc[t] \in {286, 288}
       /\ loc' = [loc EXCEPT ![t] = EndCall(@, pc[t] = 286)]
       /\ aux' = [aux EXCEPT ![t].subs = Append(@, pc[t] = 286)]
       /\ Return(t)
       /\ UNCHANGED <<robot, hw, faultsLeft, others>>

\* ------------------------------------------------------------------------
\* Command parameters (main.py: the text of the sheet's third column)
\* ------------------------------------------------------------------------
Digits == {"0", "1", "2", "3", "4", "5", "6", "7", "8", "9"}

DigitVal(c) ==
    CASE c = "0" -> 0 [] c = "1" -> 1 [] c = "2" -> 2 [] c = "3" -> 3
      [] c = "4" -> 4 [] c = "5" -> 5 [] c = "6" -> 6 [] c = "7" -> 7
      [] c = "8" -> 8 [] c = "9" -> 9

\* distance.replace('.', '')
StripDots(s) == SelectSeq(s, LAMBDA c : c # ".")

\* str.isdigit(): at least one character, all of them digits
IsDigit(s) == Len(s) > 0 /\ \A i \in 1..Len(s) : s[i] \in Digits

RECURSIVE IntOf(_)
IntOf(s) == IF s = <<>> THEN 0 ELSE 10 * IntOf(SubSeq(s, 1, Len(s) - 1)) + DigitVal(s[Len(s)])

RECURSIVE Pow10(_)
Pow10(n) == IF n = 0 THEN 1 ELSE 10 * Pow10(n - 1)

Dots(s) == {i \in 1..Len(s) : s[i] = "."}

\* float(s) of a text of digits and dots raises ValueError unless it has at
\* most one dot
FloatRaises(s) == Cardinality(Dots(s)) > 1

\* float(s) in thousandths, for a text of digits with at most one dot
FloatMilli(s) ==
    LET decimals == IF Dots(s) = {} THEN 0 ELSE Len(s) - (CHOOSE i \in Dots(s) : TRUE)
    IN (IntOf(StripDots(s)) * 1000) \div Pow10(decimals)

\* whether float(x) if x.replace('.', '').isdigit() else default raises
ParseRaises(s) == IsDigit(StripDots(s)) /\ FloatRaises(s)

\* float(x) if x.replace('.', '').isdigit() else default, in thousandths
ParseParam(s, default) ==
    IF IsDigit(StripDots(s)) THEN FloatMilli(s) ELSE default

\* the texts of the parameter cell
ParamStrings == {<<"0">>, <<"0", ".", "1">>, <<"x">>, <<"1", ".", "2", ".", "3">>}

\* get_row2_command: row_data[2].strip() if row_data[2] else '1'
CellOrDefault(raw) == IF raw = <<>> THEN <<"1">> ELSE raw

\* the keys of CommandExecutor.command_map
command_map == {"forward", "backward", "left turn", "right turn", "dance", "hi", "stop"}

\* the first line of the method command_map gives for a command
Method(cmd) ==
    CASE cmd = "forward" -> 402 [] cmd = "backward" -> 415
      [] cmd = "left turn" -> 428 [] cmd = "right turn" -> 438
      [] cmd = "dance" -> 449 [] cmd = "hi" -> 474 [] cmd = "stop" -> 489

\* commands the sheet may hold; "spin" stands for any unknown command
SheetCommands == command_map \cup {"spin"}

\* what the sheet holds once a first command has been executed
LaterCommands == {"stop", "forward", "left turn"}

LaterParams == {<<"0", ".", "1">>}

\* the commands whose method reads its parameter
Parametric == {"forward", "backward", "left turn", "right turn", "left", "right"}

LocInit == [cmd |-> "", param |-> <<>>, value |-> 0, distance |-> 0, angle |-> 0,
            elapsed |-> 0, i |-> 0, success |-> FALSE, ret |-> FALSE]

\* history of the command in progress, read by the properties only:
\*   fault      a hardware write raised
\*   wrote      a GPIO / PWM call was made
\*   high       a direction pin was driven from low to high
\*   prev       elapsed time at the last loop test that went on, -1 if none
\*   clear      every reading of the move in progress was >= the threshold
\*   nudge      ms slept in a recovery nudge
\*   polls      polling sleeps begun after a stop command was answered
\*   stopAsked  a stop command was answered while this move was in its loop
\*   subs       the return values of the primitives called, in order
\*   queued     the events enqueued, each with wrote at that moment
\*   obstacle   a reading of the command was below the threshold
\*   flagged    the stop flag was set while the primitive in progress ran
\*   late       position updates the primitive made after the flag was set
\*   rejected   the command was turned away because another one executes
\*   afterStop  the command reported last before this one came was a stop
\*   timeout    the last measurement of the move in progress saw no echo edge
\*   sensors    the sensors read since the primitive in progress began
\*   stopped    a stop command set the stop flag while this command held the
\*              executing flag
\*   entered    the stop flag was set when the primitive of the simulated
\*              robot in progress was entered
AuxInit == [fault |-> FALSE, wrote |-> FALSE, high |-> FALSE, prev |-> -1,
            clear |-> TRUE, nudge |-> 0, polls |-> 0, stopAsked |-> FALSE,
            subs |-> <<>>, queued |-> <<>>, obstacle |-> FALSE,
            flagged |-> FALSE, late |-> 0, rejected |-> FALSE,
            afterStop |-> FALSE, timeout |-> FALSE, sensors |-> {},
            stopped |-> FALSE, entered |-> FALSE]

\* action_queue.put(ev): the queue is unbounded, put never blocks or raises
Put(t, ev) ==
    /\ action_queue' = Append(action_queue, ev)
    /\ aux' = [aux EXCEPT ![t].queued = Append(@, [ev |-> ev, wrote |-> aux[t].wrote])]

\* ------------------------------------------------------------------------
\* CommandExecutor (main.py): the Sheets command source
\* ------------------------------------------------------------------------
quiet == <<program, boot, sheet, display, demo, robot, hw, faultsLeft, executing, submitted, results>>

\* a step that only moves on to line l
Skip(t, l) ==
    /\ Goto(t, l)
    /\ UNCHANGED <<loc, aux, action_queue, quiet>>

\* a step that calls the routine at line f and comes back at line r
CallStep(t, f, r) ==
    /\ Call(t, f, r)
    /\ UNCHANGED <<loc, aux, action_queue, quiet>>

\* return v to the caller
ReturnStep(t, v) ==
    /\ loc' = [loc EXCEPT ![t].ret = v]
    /\ Return(t)
    /\ UNCHANGED <<aux, action_queue, quiet>>

PutStep(t, ev, l) ==
    /\ Put(t, ev)
    /\ Goto(t, l)
    /\ UNCHANGED <<loc, quiet>>

\* a faulty variant of the event duration: the value itself, not divided
EventDurationRaw(kind, value) ==
    IF kind \in {"forward", "backward"}
    THEN Frac(value, 1000) ELSE Frac(Abs(value), 1000)

\* the duration the executors enqueue with a motion event: dist_value /
\* self.robot.speed, abs(angle_value) / self.robot.rot_speed
EventDuration(kind, value) ==
    IF kind \in {"forward", "backward"}
    THEN Frac(value, LINEAR_SPEED) ELSE Frac(Abs(value), ROTATION_SPEED * 1000)

\* execute_command, lines 498..508
execute_command(t) ==
    \/ /\ pc[t] = 500
       /\ IF loc[t].cmd \in command_map
          THEN Call(t, Method(loc[t].cmd), 502)
          ELSE Goto(t, 508)
       /\ UNCHANGED <<loc, aux, action_queue, quiet>>
    \/ /\ pc[t] = 502
       /\ ReturnStep(t, loc[t].ret)
    \/ /\ pc[t] = 508
       /\ ReturnStep(t, FALSE)

\* CommandExecutor.move_forward (402..410) and move_backward (415..423, b = 13)
ExecLinear(t, b, kind, first) ==
    \/ /\ pc[t] = 402 + b
       /\ IF ParseRaises(loc[t].param)
          THEN Raise(t) /\ UNCHANGED loc
          ELSE /\ Goto(t, 403 + b)
               /\ loc' = [loc EXCEPT ![t].value = ParseParam(loc[t].param, 1000)]
       /\ UNCHANGED <<aux, action_queue, quiet>>
    \/ /\ pc[t] = 403 + b
       /\ PutStep(t, <<kind, EventDuration(kind, loc[t].value)>>, 404 + b)
    \/ /\ pc[t] = 404 + b
       /\ Call(t, first, 405 + b)
       /\ loc' = [loc EXCEPT ![t].distance = loc[t].value]
       /\ UNCHANGED <<aux, action_queue, quiet>>
    \/ /\ pc[t] = 405 + b
       /\ loc' = [loc EXCEPT ![t].success = loc[t].ret]
       /\ Goto(t, IF robot_stopped THEN 406 + b ELSE 407 + b)
       /\ UNCHANGED <<aux, action_queue, quiet>>
    \/ /\ pc[t] = 406 + b
       /\ PutStep(t, <<"obstacle", <<2, 1>>>>, 407 + b)
    \/ /\ pc[t] = 407 + b
       /\ ReturnStep(t, loc[t].success)
    \/ /\ pc[t] = 409 + b
       /\ ReturnStep(t, FALSE)

CommandExecutor_move_forward(t) == ExecLinear(t, 0, "forward", 196)

CommandExecutor_move_backward(t) == ExecLinear(t, 13, "backward", 229)

\* CommandExecutor.turn_left (428..433) and turn_right (438..443, b = 10);
\* line 431 + b stands for the return of line 430 + b once turn has returned
ExecTurn(t, b, kind, sign) ==
    \/ /\ pc[t] = 428 + b
       /\ IF ParseRaises(loc[t].param)
          THEN Raise(t) /\ UNCHANGED loc
          ELSE /\ Goto(t, 429 + b)
               /\ loc' = [loc EXCEPT ![t].value = ParseParam(loc[t].param, 90000)]
       /\ UNCHANGED <<aux, action_queue, quiet>>
    \/ /\ pc[t] = 429 + b
       /\ PutStep(t, <<kind, EventDuration(kind, loc[t].value)>>, 430 + b)
    \/ /\ pc[t] = 430 + b
       /\ Call(t, 261, 431 + b)
       /\ loc' = [loc EXCEPT ![t].angle = sign * loc[t].value]
       /\ UNCHANGED <<aux, action_queue, quiet>>
    \/ /\ pc[t] = 431 + b
       /\ ReturnStep(t, loc[t].ret)
    \/ /\ pc[t] = 432 + b
       /\ ReturnStep(t, FALSE)

CommandExecutor_turn_left(t) == ExecTurn(t, 0, "left", -1)

CommandExecutor_turn_right(t) == ExecTurn(t, 10, "right", 1)

\* call robot.move_forward_with_obstacle_detection / move_backward (distance mm)
CallMove(t, first, distance, r) ==
    /\ Call(t, first, r)
    /\ loc' = [loc EXCEPT ![t].distance = distance]
    /\ UNCHANGED <<aux, action_queue, quiet>>

\* call robot.turn(angle), angle in degrees
CallTurn(t, angle, r) ==
    /\ Call(t, 261, r)
    /\ loc' = [loc EXCEPT ![t].angle = angle * 1000]
    /\ UNCHANGED <<aux, action_queue, quiet>>

\* success = <the call that just returned>; if not success: ... else ...
TakeSuccess(t, onFail, onOk) ==
    /\ loc' = [loc EXCEPT ![t].success = loc[t].ret]
    /\ Goto(t, IF ~loc[t].ret THEN onFail ELSE onOk)
    /\ UNCHANGED <<aux, action_queue, quiet>>

\* CommandExecutor.dance, lines 449..468
CommandExecutor_dance(t) ==
    \/ pc[t] = 449 /\ PutStep(t, <<"dance", <<3, 1>>>>, 450)
    \/ pc[t] = 450 /\ CallMove(t, 196, 500, 451)
    \/ pc[t] = 451 /\ TakeSuccess(t, 452, 454)
    \/ pc[t] \in {452, 457} /\ PutStep(t, <<"obstacle", <<2, 1>>>>, pc[t] + 1)
    \/ pc[t] \in {453, 458, 467} /\ ReturnStep(t, FALSE)
    \/ pc[t] \in {454, 459, 461, 463} /\ Skip(t, pc[t] + 1)
    \/ pc[t] = 455 /\ CallMove(t, 229, 500, 456)
    \/ pc[t] = 456 /\ TakeSuccess(t, 457, 459)
    \/ pc[t] = 460 /\ CallTurn(t, -45, 461)
    \/ pc[t] = 462 /\ CallTurn(t, 90, 463)
    \/ pc[t] = 464 /\ CallTurn(t, -45, 465)
    \/ pc[t] = 465 /\ ReturnStep(t, TRUE)

\* CommandExecutor.say_hi, lines 474..483
CommandExecutor_say_hi(t) ==
    \/ pc[t] = 474 /\ PutStep(t, <<"hi", <<3, 2>>>>, 475)
    \/ pc[t] = 475 /\ CallTurn(t, -30, 476)
    \/ pc[t] \in {476, 478} /\ Skip(t, pc[t] + 1)
    \/ pc[t] = 477 /\ CallTurn(t, 60, 478)
    \/ pc[t] = 479 /\ CallTurn(t, -30, 480)
    \/ pc[t] = 480 /\ ReturnStep(t, TRUE)

\* CommandExecutor.stop_robot, lines 489..494
CommandExecutor_stop_robot(t) ==
    \/ pc[t] = 489 /\ PutStep(t, <<"obstacle", <<2, 1>>>>, 490)
    \/ pc[t] = 490 /\ CallStep(t, 139, 491)
    \/ pc[t] \in {491, 493} /\ ReturnStep(t, pc[t] = 491)

\* CommandExecutor.run, lines 516..546, for a fresh command whose timestamp is
\* in range: the row is read, executed (534) and its status cell updated
run_submit(t) ==
    /\ program = "main"
    /\ t = 1
    /\ pc[t] = 0
    /\ submitted < MaxCommands
    /\ \E cmd \in IF submitted = 0 THEN SheetCommands ELSE LaterCommands :
       \E raw \in IF cmd \notin Parametric THEN {<<>>}
                  ELSE IF submitted = 0 THEN ParamStrings ELSE LaterParams :
            loc' = [loc EXCEPT ![t] = [LocInit EXCEPT !.cmd = cmd,
                                                      !.param = CellOrDefault(raw)]]
    /\ aux' = [aux EXCEPT ![t] = [AuxInit EXCEPT !.afterStop = results.cmd = "stop"]]
    /\ pc' = [pc EXCEPT ![t] = 500]
    /\ stack' = [stack EXCEPT ![t] = <<535>>]
    /\ submitted' = submitted + 1
    /\ UNCHANGED <<program, boot, sheet, display, demo, robot, hw, faultsLeft, executing, results, action_queue>>

\* lines 535..546: update_status(2, 'OK') or update_status(2, 'ERROR')
run_report(t) ==
    /\ pc[t] = 535
    /\ results' = [n |-> results.n + 1, cmd |-> loc[t].cmd, success |-> loc[t].ret]
    /\ pc' = [pc EXCEPT ![t] = 0]
    /\ loc' = [loc EXCEPT ![t] = LocInit]
    /\ aux' = [aux EXCEPT ![t] = AuxInit]
    /\ UNCHANGED <<program, boot, sheet, display, demo, stack, robot, hw, faultsLeft, executing, submitted,
                   action_queue>>

\* ------------------------------------------------------------------------
\* CommandExecutor.run (main.py): the polling loop over row 2 of the sheet
\* ------------------------------------------------------------------------
\* run(check_interval=1.0), in ms
check_interval == 1000

\* is_within_time_range(timestamp_str, max_age_seconds=20)
max_age_seconds == 20

\* a timestamp cell: whether parse_timestamp reads it, and the time it gives
Timestamp(parsable, at) == [parsable |-> parsable, at |-> at]

\* row 2 with fewer than three cells: get_row2_command returns None
ShortRow ==
    [cells |-> 0, timestamp |-> Timestamp(FALSE, 0), command |-> "",
     distance |-> <<>>, status |-> ""]

\* the texts of the status cell
Statuses == {"", "OK", "ok", "ERROR", "EXPIRED"}

\* current_status.upper()
Upper(status) ==
    CASE status = "ok" -> "OK" [] status = "pending" -> "PENDING" [] OTHER -> status

\* line 531, negated: current_status.upper() in ['OK', 'ERROR', 'EXPIRED']
Processed(status) == Upper(status) \in {"OK", "ERROR", "EXPIRED"}

\* is_within_time_range, lines 365..371: False when the timestamp cannot be
\* parsed, else abs(current_time - command_time) <= max_age_seconds
is_within_time_range(timestamp, current_time) ==
    /\ timestamp.parsable
    /\ Abs(current_time - timestamp.at) <= max_age_seconds * 1000

\* line 524: f"{current_timestamp}:{current_command}"
CommandId(data) == <<data.timestamp, data.command>>

\* a faulty variant of the test of lines 525..526: no command is a repeat
IsRepeatNever(last, id) == FALSE

\* lines 525..526: hasattr(self, 'last_command_id') and
\* current_command_id == self.last_command_id
IsRepeat(last, id) == last # <<>> /\ id = last

\* how far from the clock the timestamp of a row written to the sheet is,
\* in ms: now, 20 s and 21 s old, 20 s ahead
WriteOffsets == {0, 0 - max_age_seconds * 1000, 0 - (max_age_seconds + 1) * 1000,
                 max_age_seconds * 1000}

\* the clock of the loop and its history, read by the properties only:
\*   clock     time.time() of the thread of run, in ms
\*   polls     calls of get_row2_command
\*   writes    rows written to the sheet by its user
\*   done      the identities executed and not written again since
\*   twice     the identity executed last had been executed before
\*   updated   the last call of update_cell succeeded
PolledInit ==
    [clock |-> 0, polls |-> 0, writes |-> 0, done |-> {}, twice |-> FALSE,
     updated |-> TRUE]

\* what the loop leaves alone outside a command
loopFrame ==
    <<program, boot, stack, loc, aux, robot, hw, demo, faultsLeft, executing,
      submitted, player, stop_event, display_size, gif_dir, cache_dir>>

\* the thread of run may take its next step: its clock has been reached by
\* the clock of the display thread, or the display thread is not running or
\* waits for an event
MayRun ==
    \/ program # "display"
    \/ polled.clock <= now
    \/ player.pc = 783 /\ action_queue = <<>>
    \/ player.pc \in {ENDED, CRASHED}

\* self.action_queue.put(('idle', 0)) at lines 518 and 527, followed by
\* time.sleep(check_interval) and continue
IdleStep(t) ==
    /\ action_queue' = Append(action_queue, <<"idle", <<0, 1>>>>)
    /\ published' = Append(published, polled.clock)
    /\ seen' = [seen EXCEPT !.puts = @ + 1, !.log_in = Append(@, <<"idle", <<0, 1>>>>)]
    /\ now' = IF program = "display" /\ now < polled.clock THEN polled.clock ELSE now
    /\ polled' = [polled EXCEPT !.clock = @ + check_interval]
    /\ pc' = [pc EXCEPT ![t] = 516]
    /\ UNCHANGED <<loopFrame, results, worksheet, last_command_id, command_data>>

\* the commands the user of the sheet writes; "spin" stands for any unknown
\* command
PolledCommands == {"forward", "stop", "spin"}

\* the texts of the parameter cell the user writes: 0.1, and one float()
\* does not read
PolledParams == {<<"0", ".", "1">>, <<"1", ".", "2", ".", "3">>}

\* the user of the sheet writes a command in row 2
sheet_write ==
    /\ pc[1] = 516
    /\ polled.writes < MaxWrites
    /\ \E cmd \in PolledCommands, status \in Statuses,
          parsable \in BOOLEAN, offset \in WriteOffsets :
       \E raw \in IF cmd \notin Parametric THEN {<<>>} ELSE PolledParams :
         LET row == [cells |-> 4,
                     timestamp |-> Timestamp(parsable,
                                             IF parsable THEN polled.clock + offset ELSE 0),
                     command |-> cmd, distance |-> CellOrDefault(raw),
                     status |-> status]
         IN /\ parsable \/ offset = 0
            /\ worksheet' = row
            /\ polled' = [polled EXCEPT !.writes = @ + 1,
                                        !.done = @ \ {CommandId(row)}]
    /\ UNCHANGED <<loopFrame, pc, results, last_command_id, command_data,
                   action_queue, now, published, seen>>

\* CommandExecutor.run, lines 516..529: the row is read and compared with
\* the command handled last; with no row, or with the command handled
\* last, the idle event is put and the loop sleeps
run_poll(t) ==
    /\ t = 1
    /\ MayRun
    \* line 512: run is called
    /\ \/ /\ pc[t] = 0
          /\ pc' = [pc EXCEPT ![t] = 516]
          /\ UNCHANGED <<loopFrame, sheet, results, action_queue, now, published,
                         seen>>
       \/ /\ pc[t] = 516
          /\ polled.polls < IF program = "display" THEN MaxPolls ELSE MaxSheetPolls
          /\ \E read \in BOOLEAN :
               LET data == IF read /\ worksheet.cells >= 3 THEN worksheet ELSE ShortRow
               IN /\ command_data' = data
                  /\ pc' = [pc EXCEPT ![t] =
                             IF data = ShortRow THEN 518
                             ELSE IF IsRepeat(last_command_id, CommandId(data))
                             THEN 527 ELSE 531]
          /\ polled' = [polled EXCEPT !.polls = @ + 1]
          /\ UNCHANGED <<loopFrame, results, worksheet, last_command_id,
                         action_queue, now, published, seen>>
       \/ /\ pc[t] \in {518, 527}
          /\ IdleStep(t)

\* lines 531..549: a command not seen before is executed when its status
\* cell does not say it was handled and its timestamp is in range, and
\* marked EXPIRED when the timestamp is out of range; update_cell may fail
run_command(t) ==
    /\ t = 1
    /\ MayRun
    /\ \/ /\ pc[t] = 531
          /\ pc' = [pc EXCEPT ![t] = IF Processed(command_data.status) THEN 546
                                     ELSE 532]
          /\ UNCHANGED <<loopFrame, sheet, results, action_queue, now, published,
                         seen>>
       \/ /\ pc[t] = 532
          /\ pc' = [pc EXCEPT ![t] =
                     IF is_within_time_range(command_data.timestamp, polled.clock)
                     THEN 534 ELSE 543]
          /\ UNCHANGED <<loopFrame, sheet, results, action_queue, now, published,
                         seen>>
       \* line 534: execute_command(command_data)
       \/ /\ pc[t] = 534
          /\ loc' = [loc EXCEPT ![t] = [LocInit EXCEPT !.cmd = command_data.command,
                                                      !.param = command_data.distance]]
          /\ aux' = [aux EXCEPT ![t] = AuxInit]
          /\ pc' = [pc EXCEPT ![t] = 500]
          /\ stack' = [stack EXCEPT ![t] = <<535>>]
          /\ polled' = [polled EXCEPT
                          !.done = @ \cup {CommandId(command_data)},
                          !.twice = CommandId(command_data) \in polled.done]
          /\ UNCHANGED <<program, boot, robot, hw, demo, faultsLeft, executing,
                         submitted, display, results, worksheet, last_command_id,
                         command_data, action_queue>>
       \* lines 535..543: update_status(2, 'OK' / 'ERROR' / 'EXPIRED')
       \/ /\ pc[t] \in {535, 543}
          /\ LET status == IF pc[t] = 543 THEN "EXPIRED"
                           ELSE IF loc[t].ret THEN "OK" ELSE "ERROR"
             IN \E ok \in BOOLEAN :
                  /\ worksheet' = IF ok THEN [worksheet EXCEPT !.status = status,
                                                              !.cells = 4]
                                  ELSE worksheet
                  /\ results' = IF ok THEN [n |-> results.n + 1,
                                           cmd |-> command_data.command,
                                           success |-> status = "OK"]
                                ELSE results
                  /\ polled' = [polled EXCEPT !.updated = ok]
          /\ pc' = [pc EXCEPT ![t] = 546]
          /\ UNCHANGED <<loopFrame, last_command_id, command_data, action_queue,
                         now, published, seen>>
       \* lines 546..549
       \/ /\ pc[t] = 546
          /\ last_command_id' = CommandId(command_data)
          /\ polled' = [polled EXCEPT !.clock = @ + check_interval]
          /\ pc' = [pc EXCEPT ![t] = 516]
          /\ UNCHANGED <<loopFrame, results, worksheet, command_data, action_queue,
                         now, published, seen>>

\* ------------------------------------------------------------------------
\* WebCommandExecutor (wifi-sys.py): one thread per command received
\* ------------------------------------------------------------------------
\* the command types the page sends; "spin" stands for any unknown type
WebCommands == {"forward", "backward", "left", "right", "dance", "hi", "stop", "spin"}

\* the command types a second client sends while the first command may run
SecondCommands == {"stop"}

\* float(data.get('value', 1.0)), in thousandths
WebValues == {100}

\* a faulty variant of the if / elif chain: a type it does not know is taken
\* for a stop
WebBranchStopDefault(cmd) ==
    CASE cmd = "forward" -> W + 74 [] cmd = "backward" -> W + 80
      [] cmd = "left" -> W + 86 [] cmd = "right" -> W + 90
      [] cmd = "dance" -> W + 94 [] cmd = "hi" -> W + 110
      [] OTHER -> W + 119

\* the first line of the branch of the if / elif chain of lines 73..121
WebBranch(cmd) ==
    CASE cmd = "forward" -> W + 74 [] cmd = "backward" -> W + 80
      [] cmd = "left" -> W + 86 [] cmd = "right" -> W + 90
      [] cmd = "dance" -> W + 94 [] cmd = "hi" -> W + 110
      [] cmd = "stop" -> W + 119 [] OTHER -> W + 123

\* the thread is in the polling loop of a linear move
InLoop(t) == pc[t] \in {207, 208, 211, 240, 241, 244}

\* handle_command, lines 172..186: a thread is started for the command
handle_command(t) ==
    /\ program = "wifi"
    /\ pc[t] = 0
    /\ submitted = t - 1
    /\ submitted < MaxCommands
    /\ \E cmd \in IF t = 1 THEN WebCommands ELSE SecondCommands, value \in WebValues :
         /\ loc' = [loc EXCEPT ![t] = [LocInit EXCEPT !.cmd = cmd, !.value = value]]
    /\ aux' = [aux EXCEPT ![t] = [AuxInit EXCEPT !.afterStop = results.cmd = "stop"]]
    /\ pc' = [pc EXCEPT ![t] = W + 63]
    /\ stack' = [stack EXCEPT ![t] = <<W + 182>>]
    /\ submitted' = submitted + 1
    /\ UNCHANGED <<program, boot, sheet, display, demo, robot, hw, faultsLeft, executing, results, action_queue>>

\* execute(), line 182: socketio.emit('command_result', result)
execute(t) ==
    /\ pc[t] = W + 182
    /\ results' = [n |-> results.n + 1, cmd |-> loc[t].cmd, success |-> loc[t].ret]
    /\ pc' = [pc EXCEPT ![t] = 0]
    /\ stack' = [stack EXCEPT ![t] = <<>>]
    /\ loc' = [loc EXCEPT ![t] = LocInit]
    /\ aux' = [u \in Threads |->
                 IF u = t THEN AuxInit
                 ELSE IF loc[t].cmd = "stop" /\ InLoop(u)
                      THEN [aux[u] EXCEPT !.stopAsked = TRUE] ELSE aux[u]]
    /\ UNCHANGED <<program, boot, sheet, display, demo, robot, hw, faultsLeft, executing, submitted, action_queue>>

\* success = <the call that just returned>, then on to line l
WebTake(t, l) ==
    /\ loc' = [loc EXCEPT ![t].success = loc[t].ret]
    /\ Goto(t, l)
    /\ UNCHANGED <<aux, action_queue, quiet>>

\* WebCommandExecutor.execute_command, lines 63..141
WebCommandExecutor_execute_command(t) ==
    \/ /\ pc[t] = W + 63
       /\ IF executing
          THEN loc' = [loc EXCEPT ![t].ret = FALSE] /\ Return(t)
          ELSE Goto(t, W + 66) /\ UNCHANGED loc
       /\ UNCHANGED <<aux, action_queue, quiet>>
    \/ /\ pc[t] = W + 66
       /\ executing' = TRUE
       /\ Goto(t, W + 71)
       /\ UNCHANGED <<loc, aux, action_queue, program, boot, sheet, display, demo, robot, hw, faultsLeft,
                      submitted, results>>
    \/ /\ pc[t] = W + 71
       /\ loc' = [loc EXCEPT ![t].success = FALSE]
       /\ Goto(t, WebBranch(loc[t].cmd))
       /\ UNCHANGED <<aux, action_queue, quiet>>
    \* forward (74..77) and backward (80..83)
    \/ /\ pc[t] \in {W + 74, W + 80}
       /\ PutStep(t, <<loc[t].cmd, EventDuration(loc[t].cmd, loc[t].value)>>, pc[t] + 1)
    \/ /\ pc[t] \in {W + 75, W + 81}
       /\ CallMove(t, IF pc[t] = W + 75 THEN 196 ELSE 229, loc[t].value, -pc[t])
    \/ /\ pc[t] \in {-(W + 75), -(W + 81)}
       /\ WebTake(t, IF robot_stopped THEN 2 - pc[t] ELSE W + 123)
    \/ /\ pc[t] \in {W + 77, W + 83, W + 107}
       /\ PutStep(t, <<"obstacle", <<2, 1>>>>, W + 123)
    \* left (86..87) and right (90..91)
    \/ /\ pc[t] \in {W + 86, W + 90}
       /\ PutStep(t, <<loc[t].cmd, EventDuration(loc[t].cmd, loc[t].value)>>, pc[t] + 1)
    \/ /\ pc[t] \in {W + 87, W + 91}
       /\ Call(t, 261, -pc[t])
       /\ loc' = [loc EXCEPT ![t].angle =
                     IF pc[t] = W + 87 THEN -loc[t].value ELSE loc[t].value]
       /\ UNCHANGED <<aux, action_queue, quiet>>
    \/ /\ pc[t] \in {-(W + 87), -(W + 91)}
       /\ WebTake(t, W + 123)
    \* dance (94..107)
    \/ pc[t] = W + 94 /\ PutStep(t, <<"dance", <<3, 1>>>>, W + 95)
    \/ pc[t] = W + 95 /\ CallMove(t, 196, 500, -(W + 95))
    \/ pc[t] = -(W + 95) /\ WebTake(t, W + 96)
    \/ /\ pc[t] \in {W + 96, W + 99}
       /\ Skip(t, IF loc[t].success THEN pc[t] + 1
                  ELSE IF pc[t] = W + 96 THEN W + 99 ELSE W + 106)
    \/ pc[t] \in {W + 97, W + 100, W + 102, W + 104} /\ Skip(t, pc[t] + 1)
    \/ pc[t] = W + 98 /\ CallMove(t, 229, 500, -(W + 98))
    \/ pc[t] = -(W + 98) /\ WebTake(t, W + 99)
    \/ pc[t] = W + 101 /\ CallTurn(t, -45, W + 102)
    \/ pc[t] = W + 103 /\ CallTurn(t, 90, W + 104)
    \/ pc[t] = W + 105 /\ CallTurn(t, -45, W + 106)
    \/ pc[t] = W + 106 /\ Skip(t, IF ~loc[t].success THEN W + 107 ELSE W + 123)
    \* hi (110..116)
    \/ pc[t] = W + 110 /\ PutStep(t, <<"hi", <<3, 2>>>>, W + 111)
    \/ pc[t] = W + 111 /\ CallTurn(t, -30, W + 112)
    \/ pc[t] \in {W + 112, W + 114} /\ Skip(t, pc[t] + 1)
    \/ pc[t] = W + 113 /\ CallTurn(t, 60, W + 114)
    \/ pc[t] = W + 115 /\ CallTurn(t, -30, W + 116)
    \* stop (119..121)
    \/ pc[t] = W + 119 /\ PutStep(t, <<"obstacle", <<2, 1>>>>, W + 120)
    \/ pc[t] = W + 120 /\ CallStep(t, 139, W + 121)
    \/ /\ pc[t] \in {W + 116, W + 121}
       /\ loc' = [loc EXCEPT ![t].success = TRUE]
       /\ Goto(t, W + 123)
       /\ UNCHANGED <<aux, action_queue, quiet>>
    \* lines 123..133, and the except clause 135..141
    \/ /\ pc[t] \in {W + 123, W + 136}
       /\ executing' = FALSE
       /\ loc' = [loc EXCEPT ![t].success = pc[t] = W + 123 /\ loc[t].success]
       /\ Goto(t, IF pc[t] = W + 123 THEN W + 130 ELSE W + 141)
       /\ UNCHANGED <<aux, action_queue, program, boot, sheet, display, demo, robot, hw, faultsLeft,
                      submitted, results>>
    \/ /\ pc[t] \in {W + 130, W + 141}
       /\ ReturnStep(t, loc[t].success)

\* ------------------------------------------------------------------------
\* SimulatedRobotController (demo_controller.py)
\* ------------------------------------------------------------------------
\* the iterations of every primitive: steps = 20
steps == 20

\* what measure_distance may return: uniform(5, 15) or uniform(25, 200), cm
SimReadings == {5, 15, 25, 200}

\* check_obstacle: distance < self.obstacle_threshold
SimCheckObstacle(distance) == distance < obstacle_threshold

\* the lines of move_forward and of move_backward
SimForward == [start |-> D + 89, test |-> D + 95, stop |-> D + 97, sleep |-> D + 99,
               obst |-> D + 102, hit |-> D + 105, update |-> D + 108,
               done |-> D + 118, sign |-> 1]

SimBackward == [start |-> D + 123, test |-> D + 128, stop |-> D + 130,
                sleep |-> D + 132, obst |-> D + 134, hit |-> D + 137,
                update |-> D + 140, done |-> D + 149, sign |-> -1]

SimTurn == [start |-> D + 156, test |-> D + 161, stop |-> D + 163, sleep |-> D + 165,
            update |-> D + 168, done |-> D + 174]

\* the lines at which a primitive of the simulated robot runs
SimLines ==
    {SimForward.start, SimForward.test, SimForward.sleep, SimForward.obst,
     SimForward.update, SimBackward.start, SimBackward.test, SimBackward.sleep,
     SimBackward.obst, SimBackward.update, SimTurn.start, SimTurn.test,
     SimTurn.sleep, SimTurn.update}

\* position x and y are kept as the distance travelled along each heading:
\* x = sum of d * cos(h), y = sum of d * sin(h) over the pairs h :> d
Travel(tr, h, d) ==
    [k \in DOMAIN tr \cup {h} |->
        (IF k \in DOMAIN tr THEN tr[k] ELSE 0) + (IF k = h THEN d ELSE 0)]

\* a faulty variant of the stop test: the flag is not looked at
StopTestNever(flag) == FALSE

\* the stop test the loops make first: if self.is_stop_requested()
StopTest(flag) == flag

\* a primitive returns v
SimReturn(t, v) ==
    /\ loc' = [loc EXCEPT ![t] = EndCall(@, v)]
    /\ aux' = [aux EXCEPT ![t].subs = Append(@, v), ![t].flagged = FALSE,
                          ![t].late = 0, ![t].entered = FALSE]
    /\ Return(t)
    /\ UNCHANGED <<action_queue, quiet>>

\* an exception leaves a primitive, which has no try statement
SimRaise(t) ==
    /\ loc' = [loc EXCEPT ![t] = EndCall(@, FALSE)]
    /\ aux' = [aux EXCEPT ![t].flagged = FALSE, ![t].late = 0, ![t].entered = FALSE]
    /\ Raise(t)
    /\ UNCHANGED <<action_queue, quiet>>

\* the update a step makes after its sleep counts as late if the flag was set
Late(a) == [a EXCEPT !.late = IF a.flagged THEN @ + 1 ELSE @]

\* move_forward (lines 89..118) and move_backward (123..149)
SimMove(t, m) ==
    \/ /\ pc[t] = m.start
       /\ loc' = [loc EXCEPT ![t].i = 0]
       /\ aux' = [aux EXCEPT ![t].entered = emergency_stop_flag]
       /\ Goto(t, m.test)
       /\ UNCHANGED <<action_queue, quiet>>
    \/ /\ pc[t] = m.test
       /\ Skip(t, IF StopTest(emergency_stop_flag) THEN m.stop ELSE m.sleep)
    \* time.sleep(duration / steps) raises ValueError for a negative length
    \/ /\ pc[t] = m.sleep
       /\ IF loc[t].distance < 0 THEN SimRaise(t) ELSE Skip(t, m.obst)
    \/ /\ pc[t] = m.obst
       /\ \E r \in (IF loc[t].i > 4 THEN SimReadings ELSE {200}) :
            /\ Goto(t, IF loc[t].i > 4 /\ SimCheckObstacle(r) THEN m.hit ELSE m.update)
            /\ aux' = [aux EXCEPT ![t].obstacle =
                          @ \/ (loc[t].i > 4 /\ SimCheckObstacle(r))]
       /\ UNCHANGED <<loc, action_queue, quiet>>
    \/ /\ pc[t] = m.update
       /\ position' = [position EXCEPT
                          !.travel = Travel(@, position.angle,
                                            m.sign * (loc[t].distance \div steps))]
       /\ total_distance' = total_distance + loc[t].distance \div steps
       /\ loc' = [loc EXCEPT ![t].i = @ + 1]
       /\ aux' = [aux EXCEPT ![t] = Late(@)]
       /\ Goto(t, IF loc[t].i + 1 < steps THEN m.test ELSE m.done)
       /\ UNCHANGED <<program, boot, sheet, display, emergency_stop_flag, total_rotations, command_count, robot_status,
                      execution_lock, robot, hw, faultsLeft, executing, submitted,
                      results, action_queue>>
    \/ /\ pc[t] \in {m.stop, m.hit, m.done}
       /\ SimReturn(t, pc[t] = m.done)

SimulatedRobotController_move_forward(t) == SimMove(t, SimForward)

SimulatedRobotController_move_backward(t) == SimMove(t, SimBackward)

\* turn (lines 156..174); the angle is loc[t].angle, in 1/1000 degree
SimulatedRobotController_turn(t) ==
    \/ /\ pc[t] = SimTurn.start
       /\ loc' = [loc EXCEPT ![t].i = 0]
       /\ aux' = [aux EXCEPT ![t].entered = emergency_stop_flag]
       /\ Goto(t, SimTurn.test)
       /\ UNCHANGED <<action_queue, quiet>>
    \/ /\ pc[t] = SimTurn.test
       /\ Skip(t, IF StopTest(emergency_stop_flag) THEN SimTurn.stop ELSE SimTurn.sleep)
    \/ /\ pc[t] = SimTurn.sleep
       /\ Skip(t, SimTurn.update)
    \/ /\ pc[t] = SimTurn.update
       /\ position' = [position EXCEPT
                          !.angle = (@ + loc[t].angle \div steps) % 360000]
       /\ total_rotations' = total_rotations + Abs(loc[t].angle \div steps)
       /\ loc' = [loc EXCEPT ![t].i = @ + 1]
       /\ aux' = [aux EXCEPT ![t] = Late(@)]
       /\ Goto(t, IF loc[t].i + 1 < steps THEN SimTurn.test ELSE SimTurn.done)
       /\ UNCHANGED <<program, boot, sheet, display, emergency_stop_flag, total_distance, command_count, robot_status,
                      execution_lock, robot, hw, faultsLeft, executing, submitted,
                      results, action_queue>>
    \/ /\ pc[t] \in {SimTurn.stop, SimTurn.done}
       /\ SimReturn(t, pc[t] = SimTurn.done)

\* call a primitive of the simulated robot
SimCallMove(t, m, distance, r) ==
    /\ Call(t, m.start, r)
    /\ loc' = [loc EXCEPT ![t].distance = distance]
    /\ UNCHANGED <<aux, action_queue, quiet>>

SimCallTurn(t, angle, r) ==
    /\ Call(t, SimTurn.start, r)
    /\ loc' = [loc EXCEPT ![t].angle = angle]
    /\ UNCHANGED <<aux, action_queue, quiet>>

\* dance (lines 180..213)
SimulatedRobotController_dance(t) ==
    \/ /\ pc[t] \in {D + 180, D + 193, D + 197, D + 201, D + 205, D + 209}
       /\ Skip(t, IF emergency_stop_flag THEN pc[t] + 1
                  ELSE IF pc[t] = D + 180 THEN D + 183 ELSE pc[t] + 2)
    \/ /\ pc[t] \in {D + 181, D + 185, D + 190, D + 194, D + 198, D + 202, D + 206,
                     D + 210}
       /\ ReturnStep(t, FALSE)
    \/ pc[t] = D + 183 /\ SimCallMove(t, SimForward, 500, -(D + 183))
    \/ pc[t] = D + 188 /\ SimCallMove(t, SimBackward, 500, -(D + 188))
    \/ /\ pc[t] \in {-(D + 183), -(D + 188)}
       /\ loc' = [loc EXCEPT ![t].success = loc[t].ret]
       /\ Goto(t, IF ~loc[t].ret \/ emergency_stop_flag THEN 2 - pc[t] ELSE 3 - pc[t])
       /\ UNCHANGED <<aux, action_queue, quiet>>
    \/ pc[t] \in {D + 186, D + 191, D + 199, D + 207} /\ Skip(t, pc[t] + 2)
    \/ pc[t] = D + 195 /\ SimCallTurn(t, -45000, D + 197)
    \/ pc[t] = D + 203 /\ SimCallTurn(t, 90000, D + 205)
    \/ pc[t] = D + 211 /\ SimCallTurn(t, -45000, D + 213)
    \/ pc[t] = D + 213 /\ ReturnStep(t, TRUE)

\* say_hi (lines 219..239)
SimulatedRobotController_say_hi(t) ==
    \/ /\ pc[t] \in {D + 219, D + 223, D + 227, D + 231, D + 235}
       /\ Skip(t, IF emergency_stop_flag THEN pc[t] + 1 ELSE pc[t] + 2)
    \/ /\ pc[t] \in {D + 220, D + 224, D + 228, D + 232, D + 236}
       /\ ReturnStep(t, FALSE)
    \/ pc[t] = D + 221 /\ SimCallTurn(t, -30000, D + 223)
    \/ pc[t] \in {D + 225, D + 233} /\ Skip(t, pc[t] + 2)
    \/ pc[t] = D + 229 /\ SimCallTurn(t, 60000, D + 231)
    \/ pc[t] = D + 237 /\ SimCallTurn(t, -30000, D + 239)
    \/ pc[t] = D + 239 /\ ReturnStep(t, TRUE)

\* ------------------------------------------------------------------------
\* DemoCommandExecutor (demo_controller.py): one thread per command received
\* ------------------------------------------------------------------------
\* the command types the page sends; "spin" stands for any unknown type
DemoCommands == {"forward", "backward", "left", "right", "dance", "hi", "stop", "spin"}

\* the command types a second client sends, while the first command may run
\* or after it
DemoSecondCommands == {"stop", "forward", "left"}

\* float(data.get('value', 1.0)), in thousandths: any number the page sends;
\* the sign matters to the linear moves, whose sleep raises for a negative
\* length, and a turn takes the absolute value
DemoValues(cmd) == IF cmd \in {"forward", "backward"} THEN {100, -100} ELSE {100}

\* the first line of the branch of the if / elif chain of lines 279..295
DemoBranch(cmd) ==
    CASE cmd = "forward" -> D + 280 [] cmd = "backward" -> D + 283
      [] cmd = "left" -> D + 286 [] cmd = "right" -> D + 289
      [] cmd = "dance" -> D + 292 [] cmd = "hi" -> D + 295
      [] OTHER -> D + 298

\* a faulty variant of the lock: a thread enters whoever holds it
LockIgnored(lock) == TRUE

\* threading.Lock: a thread enters "with self.execution_lock" once it is free
LockFree(lock) == lock = 0

\* handle_command, lines 361..371: a thread is started for the command
demo_handle_command(t) ==
    /\ program = "demo"
    /\ pc[t] = 0
    /\ submitted = t - 1
    /\ submitted < MaxCommands
    /\ \E cmd \in IF t = 1 THEN DemoCommands ELSE DemoSecondCommands :
       \E value \in DemoValues(cmd) :
         loc' = [loc EXCEPT ![t] = [LocInit EXCEPT !.cmd = cmd, !.value = value]]
    /\ aux' = [aux EXCEPT ![t] = [AuxInit EXCEPT !.afterStop = results.cmd = "stop"]]
    /\ pc' = [pc EXCEPT ![t] = D + 254]
    /\ stack' = [stack EXCEPT ![t] = <<D + 367>>]
    /\ submitted' = submitted + 1
    /\ UNCHANGED <<program, boot, sheet, display, demo, robot, hw, faultsLeft, executing, results, action_queue>>

\* execute(), line 367: socketio.emit('command_result', result)
demo_execute(t) ==
    /\ pc[t] = D + 367
    /\ results' = [n |-> results.n + 1, cmd |-> loc[t].cmd, success |-> loc[t].ret]
    /\ pc' = [pc EXCEPT ![t] = 0]
    /\ stack' = [stack EXCEPT ![t] = <<>>]
    /\ loc' = [loc EXCEPT ![t] = LocInit]
    /\ aux' = [aux EXCEPT ![t] = AuxInit]
    /\ UNCHANGED <<program, boot, sheet, display, demo, robot, hw, faultsLeft, executing, submitted, action_queue>>

\* a step of the executor that changes its own fields only
DemoFrame == <<program, boot, sheet, display, sim, robot, hw, faultsLeft, submitted, results, action_queue>>

\* the thread is between setting and resetting DemoCommandExecutor.executing
InDemoSection(t) ==
    pc[t] \notin {0, D + 254, D + 256, D + 260, D + 263, D + 264, D + 265, D + 266,
                  D + 320, D + 329, D + 367}

\* a faulty variant of the test of line 254: no command is a stop
IsStopNever(command_type) == FALSE

\* line 254: command_type == 'stop'
IsStop(command_type) == command_type = "stop"

\* DemoCommandExecutor.execute_command, lines 254..320
\* robot_status at the end of a command, lines 298..305: the error of an
\* emergency stop, else the error that is there, else that of a failure
StatusAtEnd(status, success, stopped) ==
    [executing |-> FALSE,
     error |-> IF stopped THEN "Stopped by emergency stop"
               ELSE IF status.error # "None" THEN status.error
               ELSE IF success THEN "None"
               ELSE "Command failed or obstacle detected"]

DemoCommandExecutor_execute_command(t) ==
    \/ /\ pc[t] = D + 254
       /\ Skip(t, IF IsStop(loc[t].cmd) THEN D + 256 ELSE D + 263)
    \* trigger_emergency_stop, line 62; robot_status, lines 257..258
    \/ /\ pc[t] = D + 256
       /\ emergency_stop_flag' = TRUE
       /\ aux' = [u \in Threads |->
                    IF u # t /\ InDemoSection(u)
                    THEN [aux[u] EXCEPT !.flagged = @ \/ pc[u] \in SimLines,
                                        !.stopped = TRUE]
                    ELSE aux[u]]
       /\ robot_status' = [error |-> "Emergency stop activated", executing |-> FALSE]
       /\ Goto(t, D + 260)
       /\ UNCHANGED <<program, boot, sheet, display, position, total_distance, total_rotations,
                      command_count, execution_lock, loc, robot, hw, faultsLeft,
                      executing, submitted, results, action_queue>>
    \/ /\ pc[t] = D + 260
       /\ ReturnStep(t, TRUE)
    \* with self.execution_lock: (263, 310 and 326)
    \/ /\ pc[t] \in {D + 263, D + 310, D + 326}
       /\ LockFree(execution_lock)
       /\ execution_lock' = t
       /\ Goto(t, pc[t] + 1)
       /\ UNCHANGED <<DemoFrame, command_count, robot_status, executing, loc, aux>>
    \/ /\ pc[t] = D + 264
       /\ Goto(t, IF executing THEN D + 265 ELSE D + 266)
       /\ UNCHANGED <<loc, aux, action_queue, quiet>>
    \/ /\ pc[t] = D + 265
       /\ execution_lock' = 0
       /\ loc' = [loc EXCEPT ![t].ret = FALSE]
       /\ aux' = [aux EXCEPT ![t].rejected = TRUE]
       /\ Return(t)
       /\ UNCHANGED <<DemoFrame, command_count, robot_status, executing>>
    \/ /\ pc[t] = D + 266
       /\ executing' = TRUE
       /\ execution_lock' = 0
       /\ Goto(t, D + 269)
       /\ UNCHANGED <<DemoFrame, command_count, robot_status, loc, aux>>
    \* clear_emergency_stop, line 67
    \/ /\ pc[t] = D + 269
       /\ emergency_stop_flag' = FALSE
       /\ Goto(t, D + 273)
       /\ UNCHANGED <<program, boot, sheet, display, position, total_distance, total_rotations,
                      command_count, robot_status, execution_lock, loc, aux, robot, hw, faultsLeft,
                      executing, submitted, results, action_queue>>
    \/ /\ pc[t] = D + 273
       /\ command_count' = command_count + 1
       /\ robot_status' = [robot_status EXCEPT !.executing = TRUE]
       /\ Goto(t, D + 277)
       /\ UNCHANGED <<DemoFrame, execution_lock, executing, loc, aux>>
    \/ /\ pc[t] = D + 277
       /\ loc' = [loc EXCEPT ![t].success = FALSE]
       /\ Goto(t, DemoBranch(loc[t].cmd))
       /\ UNCHANGED <<aux, action_queue, quiet>>
    \/ /\ pc[t] \in {D + 280, D + 283}
       /\ SimCallMove(t, IF pc[t] = D + 280 THEN SimForward ELSE SimBackward,
                      loc[t].value, -pc[t])
    \/ /\ pc[t] \in {D + 286, D + 289}
       /\ SimCallTurn(t, IF pc[t] = D + 286 THEN -loc[t].value ELSE loc[t].value,
                      -pc[t])
    \/ /\ pc[t] \in {D + 292, D + 295}
       /\ CallStep(t, IF pc[t] = D + 292 THEN D + 180 ELSE D + 219, -pc[t])
    \/ /\ pc[t] \in {-(D + 280), -(D + 283), -(D + 286), -(D + 289), -(D + 292),
                     -(D + 295)}
       /\ WebTake(t, D + 298)
    \* lines 298..305
    \/ /\ pc[t] = D + 298
       /\ loc' = [loc EXCEPT ![t].success = @ /\ ~emergency_stop_flag]
       /\ robot_status' = StatusAtEnd(robot_status, loc[t].success, emergency_stop_flag)
       /\ Goto(t, D + 310)
       /\ UNCHANGED <<aux, action_queue, program, boot, sheet, display, sim, command_count,
                      execution_lock, robot, hw, faultsLeft, executing, submitted,
                      results>>
    \/ /\ pc[t] \in {D + 311, D + 327}
       /\ executing' = FALSE
       /\ execution_lock' = 0
       /\ Goto(t, IF pc[t] = D + 311 THEN D + 320 ELSE D + 329)
       /\ UNCHANGED <<DemoFrame, command_count, robot_status, loc, aux>>
    \/ /\ pc[t] \in {D + 320, D + 329}
       /\ ReturnStep(t, pc[t] = D + 320 /\ loc[t].success)
    \* the except clause, lines 322..325
    \/ /\ pc[t] = D + 322
       /\ robot_status' = [executing |-> FALSE, error |-> "str(e)"]
       /\ Goto(t, D + 326)
       /\ UNCHANGED <<aux, loc, action_queue, program, boot, sheet, display, sim,
                      command_count, execution_lock, robot, hw, faultsLeft,
                      executing, submitted, results>>

\* ------------------------------------------------------------------------
\* PortraitGifPlayer (main.py): the display thread and the frame cache
\* ------------------------------------------------------------------------
\* action_queue.get(timeout=1.0), in ms
QueuePoll == 1000
\* the 3600 s an event of duration 0 is played
IdleLimit == 3600
\* show_text("Robot GIF Player\nReady!", duration=3), in ms
BannerSleep == 3000
\* clean_old_cache_files(max_age_days=7)
max_age_days == 7
\* 24 * 60 * 60 seconds, in ms
DayMs == 86400000
\* frame.info.get('duration', 100), in ms
FrameMs == 100

\* 'version': '1.0' of a cache entry
CacheVersion == "1.0"

\* the files the gif directory may hold
GifNames == {"forward.gif", "idle.gif"}

\* self.gif_map.get(action, 'idle.gif')
gif_map(action) ==
    CASE action = "forward" -> "forward.gif" [] action = "backward" -> "backwards.gif"
      [] action = "left" -> "left.gif" [] action = "right" -> "right.gif"
      [] action = "dance" -> "dance.gif" [] action = "hi" -> "hi.gif"
      [] action = "obstacle" -> "obstacle.gif" [] OTHER -> "idle.gif"

\* a file of the gif directory: whether it exists, whether Image.open and the
\* frame iterator read it, its st_size and st_mtime, whether it is wider than
\* high
NoFile == [exists |-> FALSE, intact |-> FALSE, size |-> 0, mtime |-> 0,
           landscape |-> FALSE]

GifFile(intact, landscape) ==
    [exists |-> TRUE, intact |-> intact, size |-> 1, mtime |-> 0,
     landscape |-> landscape]

\* os.path.exists(gif_path)
Exists(name) == name \in DOMAIN gif_dir /\ gif_dir[name].exists

\* display geometries: 320 x 480 as configured, and one other
Geometries == {<<320, 480>>, <<480, 320>>}

\* get_gif_cache_path, lines 599..611: None (<<>>) when self.cache_dir is
\* None (setup_cache_directory could not create it) or os.stat raises, else
\* the path made of the md5 of basename, size, mtime and display size; the
\* hash is taken to be free of collisions
get_gif_cache_path(name) ==
    IF player.cache_dir = "None" \/ ~Exists(name) THEN <<>>
    ELSE <<name, gif_dir[name].size, gif_dir[name].mtime,
           display_size[1], display_size[2]>>

\* prepare_image_for_portrait: frame i of a file, on a canvas of the display
\* size (the size given), rotated when the frame is wider than high
Frame(name, file, size, i) ==
    [gif |-> name, content |-> <<file.size, file.mtime>>, index |-> i,
     canvas |-> size, rotated |-> file.landscape]

\* a faulty variant of lines 741..742: one duration is kept for all frames
DecodeOneDuration(name, file, size) ==
    [frames |-> [i \in 1..FrameCount |-> Frame(name, file, size, i)],
     durations |-> <<FrameMs>>,
     is_landscape |-> file.landscape]

\* lines 730..745: the frames, their durations (ms) and the landscape flag
Decode(name, file, size) ==
    [frames |-> [i \in 1..FrameCount |-> Frame(name, file, size, i)],
     durations |-> [i \in 1..FrameCount |-> FrameMs],
     is_landscape |-> file.landscape]

\* what preprocess_gif_frames returns when it has no frames: [], [], False
NoFrames == [frames |-> <<>>, durations |-> <<>>, is_landscape |-> FALSE]

\* save_processed_frames, lines 616..624: the file written at cache_path
CacheEntry(res, size, time) ==
    [frames |-> res.frames, durations |-> res.durations,
     is_landscape |-> res.is_landscape, display_size |-> size,
     version |-> CacheVersion, ctime |-> time]

\* a faulty variant of save_processed_frames: nothing is written
SaveNothing(files, path, res, size, time) == files

\* save_processed_frames: the cache directory once the entry is written
save_processed_frames(files, path, res, size, time) ==
    (path :> CacheEntry(res, size, time)) @@ files

\* a faulty variant of the test of lines 636..637: every entry is accepted
CompatibleAlways(entry, size) == TRUE

\* lines 636..637: the entry was stored for this display size and version
Compatible(entry, size) ==
    entry.display_size = size /\ entry.version = CacheVersion

\* load_processed_frames: hit FALSE stands for None, None, None
load_processed_frames(path) ==
    IF path \in DOMAIN cache_dir /\ Compatible(cache_dir[path], display_size)
    THEN [hit |-> TRUE, frames |-> cache_dir[path].frames,
          durations |-> cache_dir[path].durations,
          is_landscape |-> cache_dir[path].is_landscape]
    ELSE [hit |-> FALSE, frames |-> <<>>, durations |-> <<>>, is_landscape |-> FALSE]

\* the outcomes of an access to a cache file: it succeeds, or, while faults
\* are left, it fails in one of the ways given
CacheOutcomes(failures) == IF faultsLeft > 0 THEN {"ok"} \cup failures ELSE {"ok"}

\* a faulty variant of lines 642..644: a read that fails yields no frames
LoadOutcomeEmpty(cached, outcome) ==
    IF outcome = "ok" THEN cached
    ELSE [hit |-> TRUE, frames |-> <<>>, durations |-> <<>>, is_landscape |-> FALSE]

\* load_processed_frames, lines 631..644: what the call returns; when open
\* or pickle.load raises it is None, None, None
LoadOutcome(cached, outcome) ==
    IF outcome = "ok" THEN cached
    ELSE [hit |-> FALSE, frames |-> <<>>, durations |-> <<>>, is_landscape |-> FALSE]

\* the file open(cache_path, 'wb') leaves when pickle.dump raises: one that
\* pickle.load cannot read
Truncated(time) ==
    [frames |-> <<>>, durations |-> <<>>, is_landscape |-> FALSE,
     display_size |-> <<0, 0>>, version |-> "", ctime |-> time]

\* save_processed_frames, lines 615..627: the cache directory after the
\* call; when open raises nothing is written, when pickle.dump raises the
\* file is left truncated
SaveOutcome(files, path, res, size, time, outcome) ==
    CASE outcome = "ok" -> save_processed_frames(files, path, res, size, time)
      [] outcome = "open" -> files
      [] OTHER -> (path :> Truncated(time)) @@ files

\* a faulty variant of the sweep test: entries of the files in use are kept
ExpiredUnlessCurrent(path, entry, time) ==
    /\ time - entry.ctime > max_age_days * DayMs
    /\ \A name \in GifNames : path # get_gif_cache_path(name)

\* lines 656..657: file_age > max_age_seconds
Expired(path, entry, time) == time - entry.ctime > max_age_days * DayMs

\* clean_old_cache_files: the cache directory after the sweep
clean_old_cache_files(files, time) ==
    LET kept == {path \in DOMAIN files : ~Expired(path, files[path], time)}
    IN [path \in kept |-> files[path]]

\* duration if duration > 0 else 3600, in seconds
TimeLimit(duration) == IF duration[1] > 0 THEN duration ELSE <<IdleLimit, 1>>

\* iterations of the loop of lines 767..773 when nothing stops it: the first
\* n with n * FrameMs >= time_limit
Iterations(limit) == CeilDiv(limit[1] * 1000, limit[2] * FrameMs)

PlayerInit ==
    [pc |-> 0, action |-> "", duration |-> <<0, 1>>, put_time |-> 0, gif |-> "",
     time_limit |-> <<0, 1>>, cache_path |-> <<>>, frames |-> <<>>,
     durations |-> <<>>, is_landscape |-> FALSE, start_time |-> 0,
     frame_index |-> 0, cache_dir |-> "gif_cache"]

\* history of the display thread, read by the properties only:
\*   puts      events put in the queue
\*   started   the time run entered its loop, -1 before
\*   sweeps    cache sweeps of this run
\*   consumed  events taken from the queue in this run
\*   decodes   decoding passes made by preprocess_gif_frames in this run
\*   returned  what preprocess_gif_frames returned last in this run, by
\*             cache path
\*   fresh     the last call of preprocess_gif_frames decoded its file
\*   timeouts  queue waits of this run that ended with no event
\*   restarts  times the player was constructed again
\*   edits     times a gif file was replaced
\*   stopped_at  the time cleanup set the stop event, -1 when it is clear
\*   log_in    the events put in the queue of this run, in order
\*   log_out   the events the display thread took from it, in order
\*   after_stop  the event being handled was taken from the queue while the
\*             stop event was set
\*   io_failed a cache file access of the last call of
\*             preprocess_gif_frames failed
SeenInit ==
    [puts |-> 0, started |-> -1, sweeps |-> 0, consumed |-> 0, decodes |-> 0,
     returned |-> <<>>, fresh |-> FALSE, timeouts |-> 0, restarts |-> 0, edits |-> 0,
     stopped_at |-> -1, log_in |-> <<>>, log_out |-> <<>>, after_stop |-> FALSE,
     io_failed |-> FALSE]

\* the variables of the controllers, which the display pipeline leaves alone
controllers ==
    <<program, boot, sheet, pc, stack, loc, aux, robot, hw, demo, faultsLeft, executing,
      submitted, results>>

\* the variables of the controllers but the count of faults left
machines ==
    <<program, boot, sheet, pc, stack, loc, aux, robot, hw, demo, executing, submitted,
      results>>

\* a step of the display thread that changes its record only
PlayerStep(next) ==
    /\ player' = next
    /\ UNCHANGED <<controllers, action_queue, stop_event, display_size, gif_dir,
                   cache_dir, now, published, seen>>

\* the events the executors put: ('idle', 0) of CommandExecutor.run, and the
\* event of a forward command
Events == {<<"idle", <<0, 1>>>>} \cup
          {<<"forward", EventDuration("forward", v)>> : v \in {2000}}

\* the display thread is not in the middle of a computation: it has not
\* started, waits for an event (783) or shows frames (769)
Waiting == player.pc \in {0, 783, 769}

\* a faulty variant of put: the event goes to the head of the queue
PutFirst(ev) ==
    /\ program = "display"
    /\ Waiting
    /\ seen.puts < MaxEvents
    /\ action_queue' = <<ev>> \o action_queue
    /\ published' = <<now>> \o published
    /\ seen' = [seen EXCEPT !.puts = @ + 1, !.log_in = Append(@, ev)]
    /\ UNCHANGED <<controllers, player, stop_event, display_size, gif_dir,
                   cache_dir, now>>

\* self.action_queue.put(...) of an executor thread
put(ev) ==
    /\ program = "display"
    /\ Waiting
    /\ seen.puts < MaxEvents
    /\ action_queue' = Append(action_queue, ev)
    /\ published' = Append(published, now)
    /\ seen' = [seen EXCEPT !.puts = @ + 1, !.log_in = Append(@, ev)]
    /\ UNCHANGED <<controllers, player, stop_event, display_size, gif_dir,
                   cache_dir, now>>

\* CommandExecutor.run, lines 517..520 and 525..529: no new command
run_idle == put(<<"idle", <<0, 1>>>>)

\* CommandExecutor.move_forward, line 403
put_forward == \E ev \in Events : ev[1] = "forward" /\ put(ev)

\* PortraitGifPlayer.cleanup, line 824
cleanup ==
    /\ program = "display"
    /\ ~stop_event
    /\ Waiting
    /\ player.pc # 0
    /\ stop_event' = TRUE
    /\ seen' = [seen EXCEPT !.stopped_at = now]
    /\ UNCHANGED <<controllers, action_queue, player, display_size, gif_dir,
                   cache_dir, now, published>>

\* a gif file is replaced by another of a later modification time
replace_gif ==
    /\ program = "display"
    /\ seen.edits < MaxEdits
    /\ player.pc = 783
    /\ \E name \in {"forward.gif"} :
         /\ Exists(name)
         /\ now > gif_dir[name].mtime
         /\ gif_dir' = [gif_dir EXCEPT ![name].mtime = now, ![name].size = @ + 1]
    /\ seen' = [seen EXCEPT !.edits = @ + 1]
    /\ UNCHANGED <<controllers, action_queue, player, stop_event, display_size,
                   cache_dir, now, published>>

\* PortraitGifPlayer.__init__ and main(), lines 852..875: the process is
\* started again, at RestartTime, once the display thread has ended, with
\* the display size it is now configured for; the cache directory is kept
PortraitGifPlayer_init ==
    /\ program = "display"
    /\ player.pc \in {ENDED, CRASHED}
    /\ seen.restarts < MaxRestarts
    /\ \E size \in Geometries : display_size' = size
    /\ player' = PlayerInit
    /\ stop_event' = FALSE
    /\ action_queue' = <<>>
    /\ published' = <<>>
    /\ seen' = [seen EXCEPT !.restarts = @ + 1, !.started = -1, !.sweeps = 0,
                            !.consumed = 0, !.puts = 0, !.returned = <<>>,
                            !.fresh = FALSE, !.stopped_at = -1,
                            !.log_in = <<>>, !.log_out = <<>>,
                            !.after_stop = FALSE, !.io_failed = FALSE,
                            !.timeouts = 0, !.decodes = 0]
    /\ now' = RestartTime
    /\ UNCHANGED <<controllers, gif_dir, cache_dir>>

\* preprocess_gif_frames, lines 722..751, called at line 758
preprocess_gif_frames ==
    \/ /\ player.pc = 722
       /\ player' = [player EXCEPT !.cache_path = get_gif_cache_path(player.gif),
                                   !.pc = 724]
       /\ seen' = [seen EXCEPT !.io_failed = FALSE]
       /\ UNCHANGED <<controllers, action_queue, stop_event, display_size, gif_dir,
                      cache_dir, now, published>>
    \* lines 723..727: the cached frames, when there are any
    \/ /\ player.pc = 724
       /\ \E outcome \in IF player.cache_path # <<>> /\ player.cache_path \in DOMAIN cache_dir
                          THEN CacheOutcomes({"read"}) ELSE {"ok"} :
          LET cached == LoadOutcome(load_processed_frames(player.cache_path), outcome) IN
          /\ IF player.cache_path # <<>> /\ cached.hit
             THEN /\ player' = [player EXCEPT !.frames = cached.frames,
                                              !.durations = cached.durations,
                                              !.is_landscape = cached.is_landscape,
                                              !.pc = 759]
                  /\ seen' = [seen EXCEPT
                                !.returned = (player.cache_path :>
                                    [frames |-> cached.frames,
                                     durations |-> cached.durations,
                                     is_landscape |-> cached.is_landscape]) @@ @,
                                !.fresh = FALSE, !.io_failed = outcome # "ok"]
             ELSE /\ player' = [player EXCEPT !.pc = 730]
                  /\ seen' = [seen EXCEPT !.io_failed = outcome # "ok"]
          /\ faultsLeft' = IF outcome = "ok" THEN faultsLeft ELSE faultsLeft - 1
       /\ UNCHANGED <<machines, action_queue, stop_event, display_size, gif_dir,
                      cache_dir, now, published>>
    \* lines 730..751: the file is decoded and the frames are saved, or
    \* Image.open or a frame raises and [], [], False is returned
    \/ /\ player.pc = 730
       /\ LET file == gif_dir[player.gif]
              res == IF file.exists /\ file.intact
                     THEN Decode(player.gif, file, display_size) ELSE NoFrames
              saves == file.exists /\ file.intact /\ player.cache_path # <<>>
          IN
          \E outcome \in IF saves THEN CacheOutcomes({"open", "dump"}) ELSE {"ok"} :
          /\ player' = [player EXCEPT !.frames = res.frames,
                                      !.durations = res.durations,
                                      !.is_landscape = res.is_landscape,
                                      !.pc = 759]
          /\ cache_dir' = IF saves
                          THEN SaveOutcome(cache_dir, player.cache_path, res,
                                           display_size, now, outcome)
                          ELSE cache_dir
          /\ faultsLeft' = IF outcome = "ok" THEN faultsLeft ELSE faultsLeft - 1
          /\ seen' = [seen EXCEPT !.decodes = @ + 1, !.fresh = TRUE,
                                  !.io_failed = @ \/ outcome # "ok",
                                  !.returned = IF player.cache_path = <<>> THEN @
                                               ELSE (player.cache_path :> res) @@ @]
       /\ UNCHANGED <<machines, action_queue, stop_event, display_size, gif_dir,
                      now, published>>

\* a faulty variant of the loop test of line 767: the stop event is not read
PlayCondTimeOnly(elapsed, time_limit, stop) ==
    FracLT(Frac(elapsed, 1000), time_limit)

\* line 767: (time.time() - start_time) < time_limit and not
\* self.stop_event.is_set(), the elapsed time in ms
PlayCond(elapsed, time_limit, stop) ==
    FracLT(Frac(elapsed, 1000), time_limit) /\ ~stop

\* a faulty variant of line 773: the index is not wrapped
NextIndexUnwrapped(frame_index, n, len) == frame_index + n

\* line 773, n times: frame_index = (frame_index + 1) % len(processed_frames)
NextIndex(frame_index, n, len) == (frame_index + n) % len

\* play_gif_with_time_limit, lines 755..775
play_gif_with_time_limit ==
    \/ /\ player.pc = 755
       /\ PlayerStep([player EXCEPT !.pc = IF ~Exists(player.gif) THEN 781 ELSE 722])
    \/ /\ player.pc = 759
       /\ PlayerStep([player EXCEPT !.pc = IF player.frames = <<>> THEN 781 ELSE 764])
    \/ /\ player.pc = 764
       /\ PlayerStep([player EXCEPT !.start_time = now, !.frame_index = 0, !.pc = 767])
    \* line 767: the loop test
    \/ /\ player.pc = 767
       /\ PlayerStep([player EXCEPT !.pc =
             IF PlayCond(now - player.start_time, player.time_limit, stop_event)
             THEN 769 ELSE 781])
    \* lines 768..773: a frame is shown for its duration and the loop test is
    \* made again; past the first MaxSteps frames, the frames that remain
    \* until the time limit are shown in one step as long as the stop event
    \* is clear
    \/ /\ player.pc = 769
       /\ LET shown == (now - player.start_time) \div FrameMs
              rest == Iterations(player.time_limit) - shown
          IN \E n \in IF stop_event \/ shown < MaxSteps THEN {1} ELSE {rest} :
             /\ now' = now + n * FrameMs
             /\ player' = [player EXCEPT
                             !.frame_index = NextIndex(@, n, Len(player.frames)),
                             !.pc = 767]
       /\ UNCHANGED <<controllers, action_queue, stop_event, display_size, gif_dir,
                      cache_dir, published, seen>>

\* PortraitGifPlayer.run, lines 779..800
PortraitGifPlayer_run ==
    \* the thread is started; show_text sleeps 3 s
    \/ /\ program = "display"
       /\ player.pc = 0
       /\ player' = [player EXCEPT !.pc = 780]
       /\ now' = now + BannerSleep
       /\ UNCHANGED <<controllers, action_queue, stop_event, display_size, gif_dir,
                      cache_dir, published, seen>>
    \/ /\ player.pc = 780
       /\ cache_dir' = IF player.cache_dir = "None" THEN cache_dir
                       ELSE clean_old_cache_files(cache_dir, now)
       /\ player' = [player EXCEPT !.pc = 781]
       /\ seen' = [seen EXCEPT !.sweeps = @ + 1, !.started = now]
       /\ UNCHANGED <<controllers, action_queue, stop_event, display_size, gif_dir,
                      now, published>>
    \/ /\ player.pc = 781
       /\ PlayerStep([player EXCEPT !.pc = IF stop_event THEN ENDED ELSE 783])
    \* line 783: an event is taken, or the wait of 1 s ends with queue.Empty
    \/ /\ player.pc = 783
       /\ IF action_queue # <<>>
          THEN /\ player' = [player EXCEPT !.action = Head(action_queue)[1],
                                           !.duration = Head(action_queue)[2],
                                           !.put_time = Head(published),
                                           !.pc = 784]
               /\ action_queue' = Tail(action_queue)
               /\ published' = Tail(published)
               /\ seen' = [seen EXCEPT !.consumed = @ + 1,
                                       !.log_out = Append(@, Head(action_queue)),
                                       !.after_stop = stop_event]
               /\ UNCHANGED now
          ELSE /\ player' = [player EXCEPT !.pc = 793]
               /\ now' = now + QueuePoll
               /\ seen' = [seen EXCEPT !.timeouts = @ + 1]
               /\ UNCHANGED <<action_queue, published>>
       /\ UNCHANGED <<controllers, stop_event, display_size, gif_dir, cache_dir>>
    \/ /\ player.pc = 784
       /\ stop_event' = FALSE
       /\ player' = [player EXCEPT !.pc = 785]
       /\ seen' = [seen EXCEPT !.stopped_at = -1]
       /\ UNCHANGED <<controllers, action_queue, display_size, gif_dir, cache_dir,
                      now, published>>
    \* lines 785..792: the animation of the event, or idle.gif when its file
    \* is not there
    \/ /\ player.pc = 785
       /\ PlayerStep([player EXCEPT
             !.gif = IF Exists(gif_map(player.action)) THEN gif_map(player.action)
                     ELSE gif_map("idle"),
             !.time_limit = TimeLimit(player.duration),
             !.frames = <<>>, !.durations = <<>>, !.is_landscape = FALSE,
             !.cache_path = <<>>,
             !.pc = 755])
    \* line 793: Queue is the class queue.Queue, which has no attribute Empty;
    \* evaluating the except clause raises AttributeError, which no clause of
    \* this try statement catches, and run has no other handler
    \/ /\ player.pc = 793
       /\ PlayerStep([player EXCEPT !.pc = CRASHED])

\* ------------------------------------------------------------------------
\* Specifications
\* ------------------------------------------------------------------------
RobotControllerStep(t) ==
    \/ move_forward_with_obstacle_detection(t)
    \/ move_backward(t)
    \/ emergency_stop_forward(t)
    \/ emergency_stop_backward(t)
    \/ handle_obstacle_detected_backward(t)
    \/ handle_obstacle_detected_forward(t)
    \/ turn(t)

CommandExecutorStep(t) ==
    \/ run_submit(t)
    \/ execute_command(t)
    \/ CommandExecutor_move_forward(t)
    \/ CommandExecutor_move_backward(t)
    \/ CommandExecutor_turn_left(t)
    \/ CommandExecutor_turn_right(t)
    \/ CommandExecutor_dance(t)
    \/ CommandExecutor_say_hi(t)
    \/ CommandExecutor_stop_robot(t)
    \/ run_report(t)

\* the main thread once startup is over: the executors' threads are followed
\* from here, the main thread no further
Started ==
    [pc |-> 0, acquired |-> {}, bound |-> {}, threads |-> {}, released |-> <<>>,
     failed |-> "none", served |-> 0, refused |-> 0]

\* the state before any command: no thread in a call, nothing moved
InitIdle ==
    /\ pc = [t \in Threads |-> 0]
    /\ stack = [t \in Threads |-> <<>>]
    /\ loc = [t \in Threads |-> LocInit]
    /\ aux = [t \in Threads |-> AuxInit]
    /\ robot_stopped = FALSE
    /\ pwm_a = "None"
    /\ pwm_b = "None"
    /\ duty = [c \in Channels |-> 0]
    /\ pwmOn = [c \in Channels |-> FALSE]
    /\ action_queue = <<>>
    /\ executing = FALSE
    /\ emergency_stop_flag = FALSE
    /\ position = [travel |-> <<>>, angle |-> 0]
    /\ total_distance = 0
    /\ total_rotations = 0
    /\ command_count = 0
    /\ robot_status = [error |-> "None", executing |-> FALSE]
    /\ execution_lock = 0
    /\ submitted = 0
    /\ results = [n |-> 0, cmd |-> "", success |-> FALSE]
    /\ worksheet = ShortRow
    /\ last_command_id = <<>>
    /\ command_data = ShortRow
    /\ polled = PolledInit

\* the state after construction: setup_gpio has driven every motor pin low
InitRobot ==
    /\ InitIdle
    /\ boot = Started
    /\ pin = [x \in DirPins |-> FALSE]

\* the display pipeline before it is constructed
InitDisplayOff ==
    /\ player = PlayerInit
    /\ stop_event = FALSE
    /\ display_size = <<320, 480>>
    /\ gif_dir = [name \in GifNames |-> NoFile]
    /\ cache_dir = <<>>
    /\ now = 0
    /\ published = <<>>
    /\ seen = SeenInit

WebCommandExecutorStep(t) ==
    \/ handle_command(t)
    \/ WebCommandExecutor_execute_command(t)
    \/ execute(t)

SimulatedRobotControllerStep(t) ==
    \/ SimulatedRobotController_move_forward(t)
    \/ SimulatedRobotController_move_backward(t)
    \/ SimulatedRobotController_turn(t)
    \/ SimulatedRobotController_dance(t)
    \/ SimulatedRobotController_say_hi(t)

DemoCommandExecutorStep(t) ==
    \/ demo_handle_command(t)
    \/ DemoCommandExecutor_execute_command(t)
    \/ demo_execute(t)

\* the Sheets controller (main.py): one thread polls the sheet and executes
Init == InitRobot /\ InitDisplayOff /\ program = "main" /\ faultsLeft = MaxFaults

Next == \E t \in {1} : CommandExecutorStep(t) \/ RobotControllerStep(t)

Spec == Init /\ [][Next]_vars

\* the web controller (wifi-sys.py), observed while no hardware call fails
InitWeb == InitRobot /\ InitDisplayOff /\ program = "wifi" /\ faultsLeft = 0

NextWeb == \E t \in Threads : WebCommandExecutorStep(t) \/ RobotControllerStep(t)

SpecWeb == InitWeb /\ [][NextWeb]_vars

\* the demo controller (demo_controller.py)
InitDemo == InitRobot /\ InitDisplayOff /\ program = "demo" /\ faultsLeft = 0

NextDemo ==
    \E t \in Threads : DemoCommandExecutorStep(t) \/ SimulatedRobotControllerStep(t)

SpecDemo == InitDemo /\ [][NextDemo]_vars

\* the display pipeline (PortraitGifPlayer of main.py) with its event sources
PlayerStepAny ==
    \/ PortraitGifPlayer_run
    \/ play_gif_with_time_limit
    \/ preprocess_gif_frames

\* the ages (ms, when the process starts) of the cache files a former run
\* left: six days, seven days less the 3 s before the sweep, eight days
FormerAges ==
    {(max_age_days - 1) * DayMs, max_age_days * DayMs - BannerSleep,
     (max_age_days + 1) * DayMs}

\* the cache file a former run of this program wrote for a file
FormerEntry(name, file, size, age) ==
    CacheEntry(Decode(name, file, size), size, 0 - age)

\* the cache file a former version of the program left at the same path:
\* another version tag, frames made for another display size
ForeignEntry(name, file, size) ==
    [CacheEntry(Decode(name, file, <<size[2], size[1]>>), <<size[2], size[1]>>,
                0 - DayMs) EXCEPT !.version = "0.9"]

\* what the cache directory may hold when the process starts: nothing; an
\* entry of a former run for forward.gif as it is, and one for a forward.gif
\* since replaced, which no file has the path of any more; or an entry of a
\* former version at the path of forward.gif
FormerCaches ==
    LET name == "forward.gif"
        file == gif_dir[name]
        path == get_gif_cache_path(name)
        gone == [GifFile(TRUE, FALSE) EXCEPT !.size = 0]
        orphans == {<<name, 0, 0, display_size[1], display_size[2]>> :>
                        FormerEntry(name, gone, display_size, age) :
                            age \in FormerAges \ {max_age_days * DayMs - BannerSleep}}
    IN IF ~(file.exists /\ file.intact) THEN {<<>>} \cup orphans
       ELSE {<<>>}
            \cup {path :> ForeignEntry(name, file, display_size)}
            \cup {(path :> FormerEntry(name, file, display_size, age)) @@ orphan :
                     age \in FormerAges, orphan \in orphans}

InitPlayer ==
    /\ InitRobot
    /\ program = "display"
    /\ faultsLeft = 0
    /\ player = PlayerInit
    /\ stop_event = FALSE
    /\ now = 0
    /\ published = <<>>
    /\ seen = SeenInit
    /\ display_size = <<320, 480>>
    /\ \E f \in {NoFile, GifFile(TRUE, FALSE), GifFile(TRUE, TRUE), GifFile(FALSE, FALSE)},
          i \in {NoFile, GifFile(TRUE, FALSE)} :
            gif_dir = [name \in GifNames |-> IF name = "forward.gif" THEN f ELSE i]
    /\ cache_dir \in FormerCaches

NextPlayer ==
    \/ PlayerStepAny
    \/ run_idle
    \/ put_forward
    \/ cleanup
    \/ replace_gif
    \/ PortraitGifPlayer_init

SpecPlayer == InitPlayer /\ [][NextPlayer]_vars

\* the display pipeline while an access to a cache file may fail, or the
\* cache directory could not be created (self.cache_dir is None)
InitCache ==
    /\ InitRobot
    /\ program = "display"
    /\ faultsLeft = MaxFaults
    /\ \E dir \in {"gif_cache", "None"} : player = [PlayerInit EXCEPT !.cache_dir = dir]
    /\ stop_event = FALSE
    /\ now = 0
    /\ published = <<>>
    /\ seen = SeenInit
    /\ display_size = <<320, 480>>
    /\ \E f \in {NoFile, GifFile(TRUE, FALSE), GifFile(TRUE, TRUE), GifFile(FALSE, FALSE)},
          i \in {NoFile, GifFile(TRUE, FALSE)} :
            gif_dir = [name \in GifNames |-> IF name = "forward.gif" THEN f ELSE i]
    /\ cache_dir \in IF player.cache_dir = "None" THEN {<<>>} ELSE FormerCaches

NextCache ==
    \/ PlayerStepAny
    \/ run_idle
    \/ put_forward
    \/ PortraitGifPlayer_init

SpecCache == InitCache /\ [][NextCache]_vars

\* the Sheets controller with its polling loop (CommandExecutor.run of
\* main.py) and the user of the sheet
NextSheet ==
    \E t \in {1} :
        \/ run_poll(t)
        \/ run_command(t)
        \/ sheet_write
        \/ execute_command(t)
        \/ CommandExecutor_move_forward(t)
        \/ CommandExecutor_stop_robot(t)
        \/ move_forward_with_obstacle_detection(t)
        \/ emergency_stop_forward(t)
        \/ handle_obstacle_detected_backward(t)

SpecSheet == Init /\ [][NextSheet]_vars

\* the display thread beside the polling loop of the sheet while the sheet
\* holds no command
\* the loop of run has polls to make
LoopActive == pc[1] \in {0, 518, 527} \/ (pc[1] = 516 /\ polled.polls < MaxPolls)

\* the display thread may take its next step: the loop of run has made the
\* steps that were due, and puts no event before a wait for an event ends
DisplayMayRun ==
    \/ ~LoopActive
    \/ /\ polled.clock > now
       /\ ~(/\ player.pc = 783
            /\ action_queue = <<>>
            /\ polled.clock < now + QueuePoll)

NextQuiet ==
    \/ DisplayMayRun /\ PlayerStepAny
    \/ run_poll(1)

SpecQuiet == InitPlayer /\ [][NextQuiet]_vars

\* any one of the three controllers
InitAll == Init \/ InitWeb \/ InitDemo

NextAll ==
    \/ program = "main" /\ Next
    \/ program = "wifi" /\ NextWeb
    \/ program = "demo" /\ NextDemo

SpecAll == InitAll /\ [][NextAll]_vars

\* the same, with every thread that can take a step taking one in the end:
\* the loops and daemon threads of the controllers run as long as the process
FairAll == SpecAll /\ WF_vars(NextAll)

\* ------------------------------------------------------------------------
\* Startup and shutdown of the process: main() of main.py and of wifi-sys.py
\* ------------------------------------------------------------------------
\* what the main thread leaves alone
bootFrame ==
    <<program, sheet, pc, stack, loc, aux, robot, duty, pwmOn, demo, action_queue,
      executing, faultsLeft, submitted, results, player, display_size, gif_dir,
      cache_dir, now, published, seen>>

\* the main thread goes on to line l
BootGoto(l) ==
    /\ boot' = [boot EXCEPT !.pc = l]
    /\ UNCHANGED <<pin, stop_event, bootFrame>>

\* the call at the current line acquires the resource r and binds the names
\* in names, then line l; or it raises, and the handler at line h is next
Acquire(r, names, l, h) ==
    /\ \/ boot' = [boot EXCEPT !.acquired = @ \cup {r}, !.bound = @ \cup names,
                                !.pc = l]
       \/ boot' = [boot EXCEPT !.failed = r, !.pc = h]
    /\ UNCHANGED <<pin, stop_event, bootFrame>>

\* threading.Thread(...).start(), then line l
StartThread(name, l) ==
    /\ boot' = [boot EXCEPT !.threads = @ \cup {name}, !.pc = l]
    /\ UNCHANGED <<pin, stop_event, bootFrame>>

\* a cleanup call is made when cond holds, then line l
Release(cond, call, l) ==
    /\ boot' = [boot EXCEPT !.released = IF cond THEN Append(@, call) ELSE @,
                            !.pc = l]
    /\ UNCHANGED <<pin, bootFrame>>

\* the process has ended: main() returned, or an exception left it
Exited == boot.pc \in {ENDED, CRASHED}

\* RobotController.__init__ and setup_gpio (main.py 51..95), called from
\* line 314 of CommandExecutor.__init__ or from line 228 of initialize_robot
RobotController_setup_gpio ==
    \/ /\ boot.pc = 86
       /\ Acquire("motor pins", {}, 87, 94)
    \/ /\ boot.pc = 87      \* lines 87..90: the four sensor pins
       /\ Acquire("sensor pins", {}, 91, 94)
    \/ /\ boot.pc = 91      \* GPIO.output(all_motor_pins, GPIO.LOW)
       /\ \/ /\ pin' = [x \in DirPins |-> FALSE]
             /\ boot' = IF program = "main" THEN [boot EXCEPT !.pc = 325]
                        ELSE [boot EXCEPT !.bound = @ \cup {"robot"}, !.pc = W + 236]
          \/ /\ pin' = pin
             /\ boot' = [boot EXCEPT !.failed = "motor pins", !.pc = 94]
       /\ UNCHANGED <<stop_event, bootFrame>>
    \/ /\ boot.pc = 94      \* logged and raised again: the caller's handler
       /\ BootGoto(IF program = "main" THEN 884 ELSE W + 248)

\* main() of main.py, lines 846..891
main ==
    /\ program = "main"
    /\ \/ /\ boot.pc = 846      \* GPIO.setmode, outside the try statement
          /\ Acquire("mode", {}, 855, CRASHED)
       \/ /\ boot.pc = 855      \* CommandExecutor(...): line 314 first
          /\ BootGoto(86)
       \/ /\ boot.pc = 325      \* setup_google_sheets, then executor is bound
          /\ Acquire("sheet", {"executor"}, 865, 884)
       \/ /\ boot.pc = 865      \* PortraitGifPlayer(...): setup_display
          /\ Acquire("panel", {"player"}, 868, 884)
       \/ /\ boot.pc = 868
          /\ StartThread("robot_thread", 873)
       \/ /\ boot.pc = 873
          /\ StartThread("gif_thread", 878)
       \/ /\ boot.pc = 878      \* KeyboardInterrupt during the sleep
          /\ BootGoto(882)
       \/ /\ boot.pc \in {882, 884}
          /\ BootGoto(886)
       \/ /\ boot.pc = 886      \* player.cleanup() sets the stop event
          /\ Release("player" \in boot.bound, "player.cleanup", 888)
          /\ stop_event' = ("player" \in boot.bound \/ stop_event)
       \/ /\ boot.pc = 888
          /\ Release("executor" \in boot.bound, "cleanup_gpio", 891)
          /\ stop_event' = stop_event
       \/ /\ boot.pc = 891
          /\ Release(TRUE, "GPIO.cleanup", ENDED)
          /\ stop_event' = stop_event

\* CommandExecutor.run (main.py 510..545) on robot_thread, a daemon thread:
\* a command of the sheet is executed
CommandExecutor_run ==
    /\ program = "main"
    /\ "robot_thread" \in boot.threads
    /\ ~Exited
    /\ boot.served < MaxServed
    /\ boot' = [boot EXCEPT !.served = @ + 1]
    /\ UNCHANGED <<pin, stop_event, bootFrame>>

\* initialize_robot of wifi-sys.py, lines 216..250
initialize_robot ==
    /\ program = "wifi"
    /\ \/ /\ boot.pc = W + 222
          /\ Acquire("mode", {}, W + 228, W + 248)
       \/ /\ boot.pc = W + 228   \* RobotController(...)
          /\ BootGoto(86)
       \/ /\ boot.pc = W + 236
          /\ boot' = [boot EXCEPT !.bound = @ \cup {"command_executor"},
                                  !.pc = W + 239]
          /\ UNCHANGED <<pin, stop_event, bootFrame>>
       \/ /\ boot.pc = W + 239   \* PortraitGifPlayer(...): setup_display
          /\ Acquire("panel", {"player"}, W + 240, W + 248)
       \/ /\ boot.pc = W + 240
          /\ StartThread("gif_thread", W + 244)
       \/ /\ boot.pc \in {W + 244, W + 248}   \* robot_status is set; return
          /\ BootGoto(W + 265)

\* main() of wifi-sys.py, lines 252..277
wifi_main ==
    /\ program = "wifi"
    /\ \/ /\ boot.pc = W + 262
          /\ BootGoto(W + 222)
       \/ /\ boot.pc = W + 265
          /\ StartThread("processor_thread", W + 271)
       \/ /\ boot.pc = W + 271   \* KeyboardInterrupt ends socketio.run
          /\ BootGoto(W + 275)
       \/ /\ boot.pc = W + 275
          /\ Release("robot" \in boot.bound, "cleanup_gpio", W + 277)
          /\ stop_event' = stop_event
       \/ /\ boot.pc = W + 277
          /\ Release(TRUE, "GPIO.cleanup", ENDED)
          /\ stop_event' = stop_event

\* handle_command (wifi-sys.py 167..186) while socketio.run serves: the
\* command is refused when command_executor is None, executed otherwise
socketio_run ==
    /\ program = "wifi"
    /\ boot.pc = W + 271
    /\ boot.served + boot.refused < MaxServed
    /\ boot' = IF "command_executor" \in boot.bound
               THEN [boot EXCEPT !.served = @ + 1]
               ELSE [boot EXCEPT !.refused = @ + 1]
    /\ UNCHANGED <<pin, stop_event, bootFrame>>

\* the process is launched: nothing is acquired, the pins are at any level
InitBoot ==
    /\ InitIdle
    /\ InitDisplayOff
    /\ faultsLeft = 0
    /\ program \in {"main", "wifi"}
    /\ pin \in [DirPins -> BOOLEAN]
    /\ boot = [Started EXCEPT !.pc = IF program = "main" THEN 846 ELSE W + 262]

NextBoot ==
    \/ main
    \/ CommandExecutor_run
    \/ wifi_main
    \/ initialize_robot
    \/ socketio_run
    \/ RobotController_setup_gpio

SpecBoot == InitBoot /\ [][NextBoot]_vars

\* ------------------------------------------------------------------------
\* Properties of the hardware controllers
\* ------------------------------------------------------------------------
\* the thread is about to return from move_forward_with_obstacle_detection
ForwardReturns(t) == pc[t] \in {220, 222}

\* the thread is inside a forward move's obstacle abort, at line l
InForwardAbort(t, l, depth) ==
    /\ pc[t] = l
    /\ Len(stack[t]) >= depth
    /\ stack[t][depth] = 210

AllLow == \A x \in DirPins : ~pin[x]

NoDuty == \A c \in Channels : duty[c] = 0

\* C1: a forward move in which every reading was at or above the threshold
\* and no hardware call failed returns True, and it leaves its loop at the
\* first loop test at which the elapsed time has reached distance / speed,
\* at most one polling sleep and one echo wait after the test before.
C1_ForwardCompletesAtFirstTick ==
    \A t \in Threads :
        (ForwardReturns(t) /\ aux[t].clear /\ ~aux[t].fault) =>
            /\ pc[t] = 220
            /\ ~robot_stopped
            /\ FracLE(target_duration(loc[t].distance), Frac(loc[t].elapsed, 1000))
            /\ aux[t].prev >= 0 =>
                 /\ FracLT(Frac(aux[t].prev, 1000), target_duration(loc[t].distance))
                 /\ loc[t].elapsed - aux[t].prev <= PollSleep + MaxEchoWait * EchoUnit

C1_Witness ==
    /\ pc[1] = 220
    /\ aux[1].clear /\ ~aux[1].fault
    /\ loc[1].cmd = "forward"
    /\ loc[1].distance > 0
    /\ loc[1].elapsed > aux[1].prev + PollSleep

\* C2: when a reading below the threshold is taken in a forward move and no
\* hardware call fails, the abort leaves both duty cycles 0 and every
\* direction pin low, the nudge then drives backward at duty 30 for 0.5 s,
\* and the move returns False with both duty cycles 0 again.
C2_ObstacleAbortsForward ==
    \A t \in Threads :
        ~aux[t].fault =>
            /\ InForwardAbort(t, 144, 1) => AllLow /\ NoDuty /\ robot_stopped
            /\ InForwardAbort(t, 165, 2) =>
                 /\ pin["A1"] /\ pin["B1"] /\ ~pin["A0"] /\ ~pin["B0"]
                 /\ \A c \in Channels : duty[c] = NudgeDuty
            /\ (ForwardReturns(t) /\ ~aux[t].clear) =>
                 /\ pc[t] = 220
                 /\ robot_stopped
                 /\ AllLow /\ NoDuty
                 /\ aux[t].nudge = NudgeSleep

C2_Witness ==
    /\ pc[1] = 220
    /\ ~aux[1].clear /\ ~aux[1].fault
    /\ robot_stopped
    /\ aux[1].nudge = NudgeSleep
    /\ aux[1].prev > 0

\* C4: once a stop command has been received and answered while a linear
\* move is in its polling loop, the move begins at most one more polling sleep.
C4_StopAbortsWithinOnePoll == \A t \in Threads : aux[t].polls <= 1

\* C5: between the start and the return of a stop command no motor
\* direction pin is driven high.
C5_StopDrivesNoPinHigh == \A t \in Threads : loc[t].cmd = "stop" => ~aux[t].high

\* the thread is inside the motion-executing section of
\* WebCommandExecutor.execute_command: executing has been set and not yet reset
InMotionSection(t) ==
    pc[t] \notin {0, W + 63, W + 66, W + 130, W + 141, W + 182}

\* C7: at most one thread is inside the motion-executing section of
\* WebCommandExecutor.execute_command at a time.
C7_OneThreadInMotionSection ==
    Cardinality({t \in Threads : InMotionSection(t)}) <= 1

AllSucceeded(t) == \A i \in DOMAIN aux[t].subs : aux[t].subs[i]

\* C9: in dance and hi no primitive is started after one that returned
\* False, and the gesture returns True only if every primitive returned True.
C9_GestureStopsAtFirstFailure ==
    \A t \in Threads :
        loc[t].cmd \in {"dance", "hi"} =>
            /\ pc[t] \in {196, 229, 261} => AllSucceeded(t)
            /\ (pc[t] = 502 /\ loc[t].ret) => AllSucceeded(t)
            /\ (pc[t] = W + 130 /\ loc[t].success) => AllSucceeded(t)

\* the event kind a command enqueues for its motion
Kind(cmd) ==
    CASE cmd = "left turn" -> "left" [] cmd = "right turn" -> "right" [] OTHER -> cmd

MotionCommands == {"forward", "backward", "left turn", "right turn", "left", "right"}

\* the places, among the events the command has enqueued, of those of its kind
OwnEvents(t) ==
    {i \in DOMAIN aux[t].queued : aux[t].queued[i].ev[1] = Kind(loc[t].cmd)}

InLinearMove(t) == pc[t] \in 196..222 \cup 229..255

InTurn(t) == pc[t] \in 261..288

\* C10: a forward, backward, left or right command enqueues at most one
\* event of its kind; when it makes its first GPIO or PWM call, and as long
\* as its primitive runs, that event is in the queue, was enqueued before
\* any such call, and carries the primitive's own target duration.
C10_EventBeforeMotion ==
    \A t \in Threads :
        loc[t].cmd \in MotionCommands =>
            /\ Cardinality(OwnEvents(t)) <= 1
            /\ (aux[t].wrote \/ InLinearMove(t) \/ InTurn(t)) =>
                 /\ OwnEvents(t) = {1}
                 /\ ~aux[t].queued[1].wrote
            /\ InLinearMove(t) =>
                 aux[t].queued[1].ev[2] = target_duration(loc[t].distance)
            /\ InTurn(t) =>
                 aux[t].queued[1].ev[2] = turn_duration(loc[t].angle)

C10_Witness ==
    /\ loc[1].cmd \in {"left turn", "left"}
    /\ pc[1] = 275
    /\ aux[1].wrote
    /\ aux[1].queued[1].ev = <<"left", turn_duration(loc[1].angle)>>
    /\ loc[1].angle < 0

\* ------------------------------------------------------------------------
\* Properties of the demo controller
\* ------------------------------------------------------------------------
\* C3: a primitive of the simulated robot during which the stop flag was
\* set returns False.
C3_FlaggedPrimitiveReturnsFalse ==
    \A t \in Threads :
        aux[t].flagged => pc[t] \notin {SimForward.done, SimBackward.done, SimTurn.done}

\* the thread is turning a command away, or has done so
Rejecting(t) == pc[t] = D + 265 \/ aux[t].rejected

\* C8: at most one thread is between setting and resetting executing, so at
\* most one runs a primitive; a non-stop command that finds executing True
\* is turned away with success False, and no step of a command turned away
\* changes position, totals or command_count.
C8_DemoCommandsExclusive ==
    /\ [](/\ Cardinality({t \in Threads : InDemoSection(t)}) <= 1
          /\ Cardinality({t \in Threads : pc[t] \in SimLines}) <= 1
          /\ \A t \in Threads :
               aux[t].rejected => pc[t] = D + 367 /\ ~loc[t].ret)
    /\ [][\A t \in Threads :
            /\ (pc[t] = D + 264 /\ executing /\ pc'[t] # pc[t]) => pc'[t] = D + 265
            /\ (Rejecting(t) /\ pc'[t] # pc[t]) =>
                 UNCHANGED <<position, total_distance, total_rotations,
                             command_count>>]_vars

C8_Witness ==
    /\ aux[2].rejected
    /\ pc[2] = D + 367
    /\ pc[1] \in SimLines
    /\ executing
    /\ total_distance > 0

\* ------------------------------------------------------------------------
\* Properties of the stop state across commands
\* ------------------------------------------------------------------------
\* the stop state of the controller that runs
StopState == IF program = "demo" THEN emergency_stop_flag ELSE robot_stopped

\* the thread runs a motion primitive that has not met an obstacle
InMotion(t) ==
    /\ ~aux[t].obstacle
    /\ \/ pc[t] \in 197..211 \cup 230..244
       \/ pc[t] \in 265..282
       \/ pc[t] \in SimLines

\* the command of the thread is a known command other than stop, with a
\* parameter that can be read and is not negative (time.sleep raises on the
\* negative duration of a negative distance, demo_controller.py:99)
Runnable(t) ==
    /\ loc[t].cmd \in (command_map \cup DemoCommands) \ {"stop", "spin"}
    /\ ~ParseRaises(loc[t].param)
    /\ loc[t].value >= 0

\* the thread hands the outcome of its command to the command source
Reporting(t) == pc[t] \in {535, W + 182, D + 367}

UnknownCommands == {"spin"}

\* C13: a command of unknown kind makes no GPIO or PWM call, enqueues no
\* event and reports failure, and none of its steps changes a pin, a duty
\* cycle, a PWM generator or the event queue.
C13_UnknownCommandRejected ==
    /\ [](\A t \in Threads :
            loc[t].cmd \in UnknownCommands =>
                /\ ~aux[t].wrote
                /\ aux[t].queued = <<>>
                /\ pc[t] \notin 139..289
                /\ Reporting(t) => ~loc[t].ret)
    /\ [][\A t \in Threads :
            (loc[t].cmd \in UnknownCommands /\ pc'[t] # pc[t]) =>
                UNCHANGED <<pin, duty, pwmOn, pwm_a, pwm_b, robot_stopped,
                            action_queue>>]_vars

C13_Witness ==
    /\ \E t \in Threads : loc[t].cmd \in UnknownCommands /\ Reporting(t) /\ ~loc[t].ret
    /\ action_queue = <<>>
    /\ submitted = 1

\* the thread is about to return from a linear move
LinearMoveReturns(t) == pc[t] \in {220, 222, 253, 255}

\* C15: whenever a linear move returns, both duty cycles are 0, all four
\* direction pins are low, no PWM generator it started runs, and pwm_a and
\* pwm_b are None.
C15_LinearMoveReturnsAtRest ==
    \A t \in Threads :
        LinearMoveReturns(t) =>
            /\ NoDuty
            /\ AllLow
            /\ \A c \in Channels : ~pwmOn[c]
            /\ pwm_a = "None" /\ pwm_b = "None"

\* the threads whose command has been submitted and has neither been
\* answered nor died of an exception
InFlight == {t \in Threads : pc[t] \notin {0, CRASHED}}

C15_FailingInput ==
    /\ pc[1] = 222
    /\ pin["A0"] /\ pin["B0"]
    /\ \A c \in Channels : duty[c] = DriveDuty /\ pwmOn[c]

\* ------------------------------------------------------------------------
\* Properties of the ranging measurement
\* ------------------------------------------------------------------------
\* C16: a linear move whose last measurement saw no echo edge within the
\* 100 ms timeout is not aborted by it: the stop state stays clear and no
\* emergency stop runs.
C16_EchoTimeoutFailsOpen ==
    \A t \in Threads :
        (aux[t].timeout /\ ~aux[t].fault) =>
            /\ ~robot_stopped
            /\ pc[t] \notin 139..190

\* ------------------------------------------------------------------------
\* Properties of the display thread
\* ------------------------------------------------------------------------
\* the event kinds of the motion commands
MotionKinds == {"forward", "backward", "left", "right"}

\* C11: when the display thread begins to show frames for a motion event
\* that was put in the queue after run entered its loop, no more than the
\* 1 s of one queue wait has passed since the event was put.
C11_MotionEventShownWithinOnePoll ==
    (/\ player.pc = 769
     /\ player.action \in MotionKinds
     /\ seen.started >= 0
     /\ player.put_time >= seen.started) =>
        player.start_time - player.put_time <= QueuePoll

\* C12: the display thread does not die of a queue wait that ended with no
\* event, and run returns only when the stop event is set.
C12_PlayerOutlivesTimeout ==
    /\ player.pc # CRASHED
    /\ player.pc = ENDED => stop_event

\* play_gif_with_time_limit is about to return without having shown a frame
NothingRendered ==
    \/ player.pc = 755 /\ ~Exists(player.gif)
    \/ player.pc = 759 /\ player.frames = <<>>

\* idle.gif is there and can be decoded
IdleAvailable == Exists("idle.gif") /\ gif_dir["idle.gif"].intact

\* C20: for no event does play_gif_with_time_limit return without showing a
\* frame while the idle animation is available: an event whose file is
\* missing or cannot be decoded has the idle animation played.
C20_IdleShownForUnreadableAnimation == NothingRendered => ~IdleAvailable

\* ------------------------------------------------------------------------
\* Properties of the frame cache
\* ------------------------------------------------------------------------
\* the result of the call of preprocess_gif_frames that ends with this step
Result(p) == [frames |-> p.frames, durations |-> p.durations,
              is_landscape |-> p.is_landscape]

\* C17: a call of preprocess_gif_frames whose cache path (file name, size,
\* modification time, display size) is that of an earlier call of the same
\* run which returned frames returns the frames, durations and landscape
\* flag that call returned, decodes nothing and leaves the cache directory
\* as it is, the entry returned being the one stored there.
C17_SecondCallServedFromCache ==
    [][(/\ player.pc \in {724, 730}
        /\ player'.pc = 759
        /\ player.cache_path \in DOMAIN seen.returned
        /\ seen.returned[player.cache_path].frames # <<>>) =>
            /\ Result(player') = seen.returned[player.cache_path]
            /\ seen'.decodes = seen.decodes
            /\ cache_dir' = cache_dir
            /\ player.cache_path \in DOMAIN cache_dir
            /\ cache_dir[player.cache_path].frames = player'.frames]_vars

C17_Witness ==
    /\ player.pc = 759
    /\ seen.consumed = 2
    /\ seen.decodes = 1
    /\ ~seen.fresh
    /\ player.gif = "forward.gif"
    /\ player.is_landscape
    /\ Len(player.frames) = FrameCount
    /\ seen.edits = 0

\* C18: the frames preprocess_gif_frames returns were made for the display
\* size in force, and when it returns frames the entry at the cache path is
\* one stored for this display size and version and holds these frames: an
\* entry stored for another size or version is replaced, not returned.
C18_NoEntryOfAnotherGeometry ==
    player.pc = 759 =>
        /\ \A i \in DOMAIN player.frames : player.frames[i].canvas = display_size
        /\ (player.frames # <<>> /\ player.cache_path # <<>>) =>
             /\ player.cache_path \in DOMAIN cache_dir
             /\ cache_dir[player.cache_path].display_size = display_size
             /\ cache_dir[player.cache_path].version = CacheVersion
             /\ cache_dir[player.cache_path].frames = player.frames
             /\ player.cache_path[4] = display_size[1]
             /\ player.cache_path[5] = display_size[2]

C18_Witness ==
    /\ player.pc = 759
    /\ seen.restarts = 1
    /\ display_size = <<480, 320>>
    /\ player.frames # <<>>
    /\ seen.fresh
    /\ \E path \in DOMAIN cache_dir :
         /\ path[1] = player.gif
         /\ path[2] = gif_dir[player.gif].size
         /\ path[3] = gif_dir[player.gif].mtime
         /\ cache_dir[path].display_size = <<320, 480>>
         /\ cache_dir[path].version = CacheVersion

\* the age of a cache file, in ms
Age(path) == now - cache_dir[path].ctime

\* C19: the sweep removes every cache file older than 7 days and keeps, as
\* it is, every file younger than that, whether or not a gif file has its
\* path; no other step removes a cache file; the sweep runs once in a run,
\* before any event is taken from the queue.
C19_SweepByAgeOnceAtStartup ==
    /\ [][(player.pc = 780 /\ player'.pc = 781) =>
            \A path \in DOMAIN cache_dir :
                /\ Age(path) > max_age_days * DayMs => path \notin DOMAIN cache_dir'
                /\ Age(path) < max_age_days * DayMs =>
                     /\ path \in DOMAIN cache_dir'
                     /\ cache_dir'[path] = cache_dir[path]]_vars
    /\ [][(\E path \in DOMAIN cache_dir : path \notin DOMAIN cache_dir') =>
            player.pc = 780]_vars
    /\ [](/\ player.pc \in {0, 780} => seen.sweeps = 0 /\ seen.consumed = 0
          /\ player.pc \notin {0, 780} => seen.sweeps = 1)

C19_Witness ==
    /\ player.pc = 781
    /\ seen.restarts = 0
    /\ gif_dir["forward.gif"].intact
    /\ get_gif_cache_path("forward.gif") \notin DOMAIN cache_dir
    /\ \E path \in DOMAIN cache_dir :
         /\ \A name \in GifNames : path # get_gif_cache_path(name)
         /\ Age(path) < max_age_days * DayMs

\* ------------------------------------------------------------------------
\* Properties of the command parameter
\* ------------------------------------------------------------------------
\* the default of the method of a command, in thousandths (m, degrees)
ParamDefault(cmd) == IF cmd \in {"forward", "backward"} THEN 1000 ELSE 90000

\* C23: a parameter text that is no non-negative decimal is replaced by the
\* default of the method (1.0 m, 90 degrees), and no parameter text makes
\* move_forward, move_backward, turn_left or turn_right return False by
\* itself: a method that returns False has put its event and called its
\* primitive.
C23_ParameterNeverRejects ==
    \A t \in Threads :
        loc[t].cmd \in {"forward", "backward", "left turn", "right turn"} =>
            /\ (/\ pc[t] \in {403, 416, 429, 439}
                /\ ~(IsDigit(StripDots(loc[t].param)) /\ ~FloatRaises(loc[t].param))) =>
                    loc[t].value = ParamDefault(loc[t].cmd)
            /\ (pc[t] = 535 /\ ~loc[t].ret) =>
                    aux[t].queued # <<>> /\ aux[t].wrote

\* ------------------------------------------------------------------------
\* Properties of the sensors, the recovery nudge and the turn
\* ------------------------------------------------------------------------
\* the thread runs a recovery nudge, at line l, called by the emergency stop
\* that the obstacle test of line ret of a linear move called
InNudgeOf(t, l, ret) ==
    /\ pc[t] = l
    /\ Len(stack[t]) >= 2
    /\ stack[t][2] = ret

\* C27: a forward move reads the front sensor only and a backward move the
\* rear sensor only; when no hardware call fails, the nudge that follows the
\* obstacle abort of a forward move sleeps with the backward pins high and
\* the forward pins low, and the nudge that follows the obstacle abort of a
\* backward move with the forward pins high and the backward pins low.
C27_SensorAndNudgeByDirection ==
    \A t \in Threads :
        /\ pc[t] \in 197..222 => aux[t].sensors \subseteq {"FRONT_USENSE"}
        /\ pc[t] \in 230..255 => aux[t].sensors \subseteq {"REAR_USENSE"}
        /\ pc[t] \in {210, 211} => aux[t].sensors = {"FRONT_USENSE"}
        /\ pc[t] \in {243, 244} => aux[t].sensors = {"REAR_USENSE"}
        /\ (Len(stack[t]) >= 2 /\ stack[t][2] = 210) => pc[t] \in 160..172
        /\ (Len(stack[t]) >= 2 /\ stack[t][2] = 243) => pc[t] \in 178..190
        /\ ~aux[t].fault =>
             /\ InNudgeOf(t, 165, 210) =>
                  pin["A1"] /\ pin["B1"] /\ ~pin["A0"] /\ ~pin["B0"]
             /\ InNudgeOf(t, 183, 243) =>
                  pin["A0"] /\ pin["B0"] /\ ~pin["A1"] /\ ~pin["B1"]

C27_Witness ==
    /\ InNudgeOf(1, 183, 243)
    /\ ~aux[1].fault
    /\ aux[1].sensors = {"REAR_USENSE"}
    /\ pin["A0"] /\ pin["B0"]
    /\ robot_stopped


\* C28: turn(0) returns True and leaves every pin, duty cycle and PWM
\* generator as it is; a turn by another angle reads no sensor, keeps pin A0
\* alone high while it sleeps when the angle is negative and pin B0 alone
\* when it is positive, and, when no hardware call fails, returns True with
\* every direction pin low and both PWM generators stopped, whatever was
\* read before and whether or not the stop state is set.
C28_TurnIgnoresObstacles ==
    /\ [](\A t \in Threads :
            /\ pc[t] \in 265..288 => aux[t].sensors = {}
            /\ ~aux[t].fault =>
                 /\ pc[t] \in 261..288 => pc[t] # 288
                 /\ pc[t] = 275 =>
                      /\ loc[t].angle < 0
                      /\ pin["A0"] /\ ~pin["A1"] /\ ~pin["B0"] /\ ~pin["B1"]
                 /\ pc[t] = 282 =>
                      /\ loc[t].angle > 0
                      /\ pin["B0"] /\ ~pin["A0"] /\ ~pin["A1"] /\ ~pin["B1"]
                 /\ pc[t] = 286 => AllLow /\ \A c \in Channels : ~pwmOn[c])
    /\ [][\A t \in Threads :
            /\ (pc[t] = 261 /\ loc[t].angle = 0 /\ pc'[t] # pc[t]) =>
                 /\ UNCHANGED <<pin, duty, pwmOn, pwm_a, pwm_b, robot_stopped>>
                 /\ loc'[t].ret
                 /\ pc'[t] \notin 262..288
            /\ (pc[t] = 286 /\ pc'[t] # pc[t]) => loc'[t].ret]_vars

C28_Witness ==
    /\ pc[1] = 286
    /\ loc[1].cmd = "left turn"
    /\ loc[1].angle < 0
    /\ ~aux[1].fault
    /\ robot_stopped
    /\ results.cmd = "forward" /\ ~results.success
    /\ AllLow

\* ------------------------------------------------------------------------
\* Properties of the stop command of the demo controller
\* ------------------------------------------------------------------------
\* C25: a command of the demo controller during which a stop command set
\* the stop flag, at any moment between its setting and its resetting of
\* executing, reports success False.
C25_StopNeverLost ==
    \A t \in Threads :
        (program = "demo" /\ pc[t] = D + 367 /\ aux[t].stopped) => ~loc[t].ret

\* C26: a stop command of the demo controller never waits: it goes from line
\* 254 to its return without reading or writing executing or taking the
\* lock, each of its steps can be taken whatever the other threads do, the
\* stop flag is set when line 62 has run, an already set flag and the state
\* of the simulated robot are left as they are, and it reports success True.
C26_StopProcessedAtOnce ==
    /\ [](\A t \in Threads :
            (program = "demo" /\ loc[t].cmd = "stop") =>
                /\ pc[t] \in {D + 254, D + 256, D + 260, D + 367}
                /\ ENABLED (DemoCommandExecutor_execute_command(t) \/ demo_execute(t))
                /\ pc[t] = D + 367 => loc[t].ret)
    /\ [][\A t \in Threads :
            (program = "demo" /\ loc[t].cmd = "stop" /\ pc'[t] # pc[t]) =>
                /\ UNCHANGED <<executing, execution_lock, position, total_distance,
                               total_rotations, command_count>>
                /\ pc[t] = D + 256 => emergency_stop_flag'
                /\ pc[t] # D + 256 => UNCHANGED emergency_stop_flag]_vars

C26_Witness ==
    /\ program = "demo"
    /\ loc[2].cmd = "stop"
    /\ pc[2] = D + 367
    /\ loc[2].ret
    /\ executing
    /\ pc[1] \in SimLines
    /\ emergency_stop_flag

\* ------------------------------------------------------------------------
\* Properties of playback and of the event queue
\* ------------------------------------------------------------------------
\* ms since playback began
Elapsed == now - player.start_time

\* C21: once cleanup has set the stop event while frames are shown, the
\* frame in progress is shown for its duration and no other: the loop test
\* that follows it leaves the loop, at most one frame period after the stop
\* event was set.
C21_StopEndsPlaybackWithinOneFrame ==
    /\ []((stop_event /\ player.pc \in {767, 769}) =>
            /\ seen.stopped_at >= player.start_time
            /\ now - seen.stopped_at <= FrameMs
            /\ player.pc = 769 => now = seen.stopped_at)
    /\ [][(stop_event /\ player.pc = 767 /\ player' # player) =>
            player'.pc = 781 /\ now' = now]_vars
    /\ [][(stop_event /\ player.pc = 769 /\ player' # player) =>
            /\ player'.pc = 767
            /\ now' - now = player.durations[player.frame_index + 1]]_vars

C21_Witness ==
    /\ player.pc = 781
    /\ stop_event
    /\ player.frames # <<>>
    /\ seen.stopped_at > player.start_time
    /\ now - seen.stopped_at = FrameMs
    /\ PlayCond(Elapsed, player.time_limit, FALSE)

\* C22: the events the display thread has taken, followed by those in the
\* queue, are the events put, in the order they were put: each event is
\* taken at most once, in that order, and none is skipped; a get takes the
\* head of the queue and nothing else.
C22_EventsTakenInOrderOnce ==
    /\ [](/\ seen.log_in = seen.log_out \o action_queue
          /\ Len(seen.log_in) = seen.puts
          /\ Len(seen.log_out) = seen.consumed)
    /\ [][(player.pc = 783 /\ action_queue # <<>> /\ player' # player) =>
            /\ <<player'.action, player'.duration>> = Head(action_queue)
            /\ action_queue' = Tail(action_queue)]_vars

C22_Witness ==
    /\ Len(seen.log_out) = 2
    /\ seen.log_out[1][1] = "forward"
    /\ seen.log_out[2][1] = "idle"
    /\ seen.log_in = seen.log_out
    /\ player.action = "idle"
    /\ player.pc = 769

\* the loop of lines 767..773 for an event of duration > 0: the frame index
\* is the number of frames shown modulo the number of frames; the loop goes
\* on at a frame boundary exactly when the time limit has not passed and the
\* stop event is clear, so it ends at the first boundary where one of them
\* fails
PlaybackLoop ==
    /\ []((player.pc \in {767, 769} /\ player.duration[1] > 0) =>
            /\ player.frame_index \in 0..(Len(player.frames) - 1)
            /\ player.frame_index = (Elapsed \div FrameMs) % Len(player.frames)
            /\ player.time_limit = player.duration)
    /\ [][(player.pc = 767 /\ player.duration[1] > 0 /\ player' # player) =>
            player'.pc = IF FracLE(player.time_limit, Frac(Elapsed, 1000)) \/ stop_event
                         THEN 781 ELSE 769]_vars
    /\ [][(player.pc = 769 /\ player.duration[1] > 0 /\ player' # player) =>
            /\ player'.pc = 767
            /\ now' > now
            /\ FracLT(Frac(now' - FrameMs - player.start_time, 1000),
                      player.time_limit)]_vars

\* playback of an event of duration > 0 has ended
PlaybackOver ==
    player.pc = 781 /\ player.frames # <<>> /\ player.duration[1] > 0

\* C29 as stated: playback of an event of duration > 0 wraps the frame index,
\* ends at the first frame boundary at which the duration has passed or the
\* stop event is set, and the thread then waits on the queue again.
C29_PlaybackReturnsToQueue ==
    /\ PlaybackLoop
    /\ [][(PlaybackOver /\ player' # player) => player'.pc = 783]_vars

\* C29 amended: playback of an event of duration > 0 wraps the frame index
\* and ends at the first frame boundary at which the duration has passed or
\* the stop event is set; the thread then waits on the queue again when the
\* stop event is clear, and run returns when it is set.
C29_PlaybackEndsAtFrameBoundary ==
    /\ PlaybackLoop
    /\ [][(PlaybackOver /\ player' # player) =>
            player'.pc = IF stop_event THEN ENDED ELSE 783]_vars

C29_Witness ==
    /\ PlaybackOver
    /\ ~stop_event
    /\ Elapsed = Iterations(player.time_limit) * FrameMs
    /\ Elapsed > MaxSteps * FrameMs
    /\ player.frame_index = Iterations(player.time_limit) % FrameCount

\* C30: playback of an event of duration <= 0 ends only when the stop event
\* is set, never because time has passed.
C30_ZeroDurationPlaysUntilInterrupted ==
    [][(player.pc = 767 /\ player.duration[1] <= 0 /\ player'.pc = 781) =>
            stop_event]_vars

\* ------------------------------------------------------------------------
\* Properties of startup
\* ------------------------------------------------------------------------
\* C24: when an acquisition has failed at startup, no command is served by
\* the process, which does not reach the line where it serves; and it does
\* not end without a cleanup call if it had acquired something.
C24_StartupFailureIsFatal ==
    boot.failed # "none" =>
        /\ boot.served = 0
        /\ boot.pc \notin {878, W + 271}
        /\ (Exited /\ boot.acquired # {}) => boot.released # <<>>

\* ------------------------------------------------------------------------
\* Properties of the simulated robot
\* ------------------------------------------------------------------------
\* the lines of a primitive before its first sleep, and its stop line
SimFirstCheck ==
    {SimForward.test, SimBackward.test, SimTurn.test,
     SimForward.stop, SimBackward.stop, SimTurn.stop}

\* the thread is in a primitive that was entered with the stop flag set
EnteredFlagged(t) ==
    /\ program = "demo"
    /\ aux[t].entered
    /\ pc[t] \in SimLines \cup SimFirstCheck

\* C39: a primitive of the simulated robot entered while the emergency stop
\* flag is set stays before its first sleep: its first test of the flag
\* leads to the stop line, it returns False from there, and from its entry
\* to its return the position, the angle and the two totals stay as they are.
C39_FlaggedPrimitiveLeavesFrame ==
    /\ [](\A t \in Threads : EnteredFlagged(t) =>
            /\ pc[t] \in SimFirstCheck
            /\ loc[t].i = 0
            /\ aux[t].late = 0)
    /\ [][\A t \in Threads : EnteredFlagged(t) =>
            /\ UNCHANGED <<position, total_distance, total_rotations>>
            /\ pc'[t] # pc[t] =>
                 IF pc[t] \in {SimForward.test, SimBackward.test, SimTurn.test}
                 THEN pc'[t] = pc[t] + 2
                 ELSE /\ pc'[t] = Head(stack[t])
                      /\ ~loc'[t].ret]_vars

C39_Witness ==
    \E t \in Threads :
        /\ EnteredFlagged(t)
        /\ pc[t] = SimTurn.stop
        /\ emergency_stop_flag
        /\ total_rotations = 0

\* C38: when a command other than stop of the demo controller returns
\* success, robot_status['error'] is None and robot_status['executing'] is
\* False, whatever was processed before the command.
C38_StatusClearAfterSuccess ==
    [][\A t \in Threads :
         (/\ program = "demo"
          /\ pc[t] = D + 320
          /\ pc'[t] = D + 367
          /\ loc[t].cmd # "stop"
          /\ loc'[t].ret) =>
            /\ robot_status'.error = "None"
            /\ ~robot_status'.executing]_vars

\* ------------------------------------------------------------------------
\* Properties of the busy flag
\* ------------------------------------------------------------------------
\* the lines at which a thread runs no command: before executing = True,
\* after executing = False, and after its end
RestLines ==
    {0, CRASHED, W + 63, W + 66, W + 130, W + 141, W + 182,
     D + 254, D + 256, D + 260, D + 263, D + 264, D + 265, D + 266, D + 320,
     D + 329, D + 367}

\* the thread runs a command: it has set executing and not reset it yet
Executes(t) == pc[t] \notin RestLines

\* the thread is at the test of the flag and finds it set
FindsBusy(t) ==
    /\ executing
    /\ pc[t] = IF program = "demo" THEN D + 264 ELSE W + 63

\* C34: executing is True only while a thread is between setting and
\* resetting it in execute_command: the step with which a thread leaves that
\* part, on whatever path, leaves executing False, the flag is False when
\* the call returns unless another thread runs a command, and a command is
\* turned away as busy only while another thread runs one.
C34_BusyFlagReleased ==
    /\ [](executing => \E t \in Threads : Executes(t))
    /\ [](\A t \in Threads :
            (pc[t] \in {W + 130, W + 141, D + 320, D + 329} /\ executing) =>
                \E u \in Threads \ {t} : Executes(u))
    /\ [][\A t \in Threads :
            /\ (Executes(t) /\ pc'[t] \in RestLines) => ~executing'
            /\ (FindsBusy(t) /\ pc'[t] # pc[t]) =>
                  \E u \in Threads \ {t} : Executes(u)]_vars

C34_Witness ==
    /\ program = "wifi"
    /\ pc[2] = W + 141
    /\ pc[1] = 220
    /\ ~executing

\* ------------------------------------------------------------------------
\* Properties of the obstacle event
\* ------------------------------------------------------------------------
\* the places, among the events the command has enqueued, of obstacle events
ObstacleEvents(t) ==
    {i \in DOMAIN aux[t].queued : aux[t].queued[i].ev[1] = "obstacle"}

\* C36: when a forward or backward command of the Sheets or of the web
\* executor has returned, it has enqueued an obstacle event if and only if
\* its linear move was aborted by a reading below the threshold; the event
\* is the second the command enqueued, after the event of its own kind.
C36_ObstacleEventIffAborted ==
    \A t \in Threads :
        (program \in {"main", "wifi"} /\ loc[t].cmd \in {"forward", "backward"}
            /\ Reporting(t)) =>
            /\ (ObstacleEvents(t) # {}) <=> aux[t].obstacle
            /\ ObstacleEvents(t) \subseteq {2}
            /\ ObstacleEvents(t) = {2} => OwnEvents(t) = {1}

\* ------------------------------------------------------------------------
\* Properties of the stop event of the display thread
\* ------------------------------------------------------------------------
\* C33: once cleanup() has set the stop event it stays in force: as long as
\* run has not returned the event stays set, and no frame is displayed for
\* an event that was taken from the queue after the event was set
C33_StopSignalStaysInForce ==
    /\ [](player.pc = 769 => ~seen.after_stop)
    /\ [][stop_event /\ player.pc \notin {0, ENDED, CRASHED} => stop_event']_vars

\* ------------------------------------------------------------------------
\* Properties of the frame cache when its files cannot be used
\* ------------------------------------------------------------------------
\* a list of frames and their durations: as many of one as of the other,
\* and at least one
WellFormed(r) == Len(r.frames) = Len(r.durations) /\ Len(r.frames) >= 1

\* C31: every cache entry preprocess_gif_frames has persisted (every file of
\* the cache directory but one a failed write left truncated) and every
\* result used for playback has as many frames as durations, and at least
\* one.
C31_FramesMatchDurations ==
    /\ \A path \in DOMAIN cache_dir :
          cache_dir[path].version # "" => WellFormed(cache_dir[path])
    /\ player.pc \in {764, 767, 769} => WellFormed(player)

C31_Witness ==
    /\ player.pc = 769
    /\ ~seen.fresh
    /\ seen.consumed = 2
    /\ player.cache_path \in DOMAIN cache_dir
    /\ cache_dir[player.cache_path].frames = player.frames
    /\ Len(player.frames) = FrameCount

\* a cache file access of this call failed, or there is no cache directory
CacheFailed == player.cache_dir = "None" \/ seen.io_failed

\* C32: a cache failure does not keep an animation from being served: when
\* the cache directory is unavailable, the cache read fails or the cache
\* write fails, preprocess_gif_frames returns the frames it has just decoded
\* from the file, and every step of the call leads on to its return.
C32_CacheFailureStillServes ==
    /\ [](player.pc = 759 /\ CacheFailed /\ gif_dir[player.gif].intact =>
            /\ seen.fresh
            /\ Result(player) = Decode(player.gif, gif_dir[player.gif], display_size)
            /\ player.frames # <<>>)
    /\ [][player.pc \in {722, 724, 730} /\ player'.pc # player.pc =>
            player'.pc \in {724, 730, 759}]_vars

C32_Witness ==
    /\ player.pc = 769
    /\ seen.io_failed
    /\ seen.consumed = 2
    /\ player.cache_path \in DOMAIN cache_dir
    /\ cache_dir[player.cache_path].version = ""

\* ------------------------------------------------------------------------
\* Properties of the polling loop of the sheet
\* ------------------------------------------------------------------------
\* the age test of the row read, at the clock of the loop
RowInRange ==
    /\ command_data.timestamp.parsable
    /\ polled.clock - command_data.timestamp.at <= max_age_seconds * 1000
    /\ command_data.timestamp.at - polled.clock <= max_age_seconds * 1000

\* C35: a command row is executed only if its status is not OK, ERROR or
\* EXPIRED and its timestamp is within 20 s of the clock; a row whose
\* timestamp is not is marked EXPIRED (when the sheet takes the update) with
\* no effect on the actuators or the event queue; and a command of a given
\* timestamp and command is executed at most once, however many times the
\* row is polled.
C35_ExecutedOnceIfFreshAndPending ==
    /\ [](~polled.twice)
    /\ [][(pc[1] # 500 /\ pc'[1] = 500) =>
            /\ pc[1] = 534
            /\ command_data.status \notin {"OK", "ERROR", "EXPIRED"}
            /\ RowInRange]_vars
    /\ [][(pc[1] = 532 /\ pc'[1] # 532 /\ ~RowInRange) => pc'[1] = 543]_vars
    /\ [][(pc[1] = 543 /\ pc'[1] # 543) =>
            /\ pc'[1] = 546
            /\ hw' = hw /\ robot' = robot /\ action_queue' = action_queue
            /\ polled'.updated => worksheet'.status = "EXPIRED"
            /\ ~polled'.updated => worksheet' = worksheet]_vars

\* the row was executed, the update of its status cell failed, and the row,
\* polled again while still in range, is passed over
C35_Witness ==
    /\ pc[1] = 527
    /\ polled.polls >= 2
    /\ CommandId(command_data) \in polled.done
    /\ command_data.status = ""
    /\ RowInRange
    /\ worksheet = command_data

\* ------------------------------------------------------------------------
\* Properties of the event queue while the sheet holds no command
\* ------------------------------------------------------------------------
\* the idle events put while run shows its banner, before it takes its first
IdleBacklog == BannerSleep \div check_interval + 1

\* C37: while the loop of the sheet polls with no new command, the events
\* waiting in the action queue stay bounded: as long as the display thread
\* runs, no more wait than were put before it took its first.
C37_IdleQueueBounded ==
    player.pc \notin {ENDED, CRASHED} => Len(action_queue) <= IdleBacklog

====
